---- MODULE Spec2Model ----
(***************************************************************************)
(* Model of openapi-client-generator's resolution engine                   *)
(* (openapi_client_generator/transformers/__init__.py): the recursive      *)
(* schema-to-type resolver, the component-schema pass resolve_schemas, the *)
(* attribute ordering of a resolved type and the endpoint descriptor       *)
(* builder iter_supported_methods.                                         *)
(*                                                                         *)
(* Python strings are sequences of one-character strings, so that the      *)
(* name conversions (underscore, camelize, singularize, ...) are computed  *)
(* character by character as the libraries compute them.                   *)
(***************************************************************************)
EXTENDS Integers, Sequences, FiniteSets, TLC

(***************************************************************************)
(* Characters and strings                                                  *)
(***************************************************************************)

LowerLetters ==
  <<"a","b","c","d","e","f","g","h","i","j","k","l","m",
    "n","o","p","q","r","s","t","u","v","w","x","y","z">>

UpperLetters ==
  <<"A","B","C","D","E","F","G","H","I","J","K","L","M",
    "N","O","P","Q","R","S","T","U","V","W","X","Y","Z">>

digits == <<"0","1","2","3","4","5","6","7","8","9">>

\* The characters used by the model, in code point order.
CodePoints ==
  <<" ", "'", "(", ")", ",", "-", ".", "/">> \o digits \o <<":">>
    \o UpperLetters \o <<"[", "]", "_">> \o LowerLetters \o <<"{", "}">>

InSeq(c, s) == \E i \in 1..Len(s) : s[i] = c

IndexIn(c, s) == CHOOSE i \in 1..Len(s) : s[i] = c

IsUpper(c) == InSeq(c, UpperLetters)

IsLower(c) == InSeq(c, LowerLetters)

IsDigit(c) == InSeq(c, digits)

ToUpper(c) == IF IsLower(c) THEN UpperLetters[IndexIn(c, LowerLetters)] ELSE c

ToLower(c) == IF IsUpper(c) THEN LowerLetters[IndexIn(c, UpperLetters)] ELSE c

Ord(c) == IndexIn(c, CodePoints)

\* str.upper() / str.lower()
StrUpper(s) == [i \in 1..Len(s) |-> ToUpper(s[i])]

StrLower(s) == [i \in 1..Len(s) |-> ToLower(s[i])]

\* str.replace(old, new) for one-character old and new
ReplaceChar(s, old, new) == [i \in 1..Len(s) |-> IF s[i] = old THEN new ELSE s[i]]

\* Python's < on str: lexicographic by code point, a proper prefix is smaller.
RECURSIVE StrLess(_, _)
StrLess(a, b) ==
  IF b = <<>> THEN FALSE
  ELSE IF a = <<>> THEN TRUE
  ELSE IF a[1] # b[1] THEN Ord(a[1]) < Ord(b[1])
  ELSE StrLess(Tail(a), Tail(b))

\* sep.join(parts)
RECURSIVE Join(_, _)
Join(sep, parts) ==
  IF parts = <<>> THEN <<>>
  ELSE IF Len(parts) = 1 THEN parts[1]
  ELSE parts[1] \o sep \o Join(sep, Tail(parts))

EndsWith(s, suffix) ==
  /\ Len(s) >= Len(suffix)
  /\ SubSeq(s, Len(s) - Len(suffix) + 1, Len(s)) = suffix

\* s without its last n characters
DropLast(s, n) == SubSeq(s, 1, Len(s) - n)

\* Optional[str]
None == [some |-> FALSE, val |-> <<>>]

Some(v) == [some |-> TRUE, val |-> v]

(***************************************************************************)
(* inflection.underscore / camelize / singularize, typeit normalize_name   *)
(***************************************************************************)

\* re.sub(r"([A-Z]+)([A-Z][a-z])", r'\1_\2', word): an underscore goes before
\* the last capital of a run of capitals that a lower-case letter follows.
RECURSIVE SubAcronym(_, _)
SubAcronym(w, j) ==
  IF j > Len(w) THEN <<>>
  ELSE (IF /\ j >= 2
           /\ j < Len(w)
           /\ IsUpper(w[j - 1])
           /\ IsUpper(w[j])
           /\ IsLower(w[j + 1])
        THEN <<"_", w[j]>>
        ELSE <<w[j]>>) \o SubAcronym(w, j + 1)

\* re.sub(r"([a-z\d])([A-Z])", r'\1_\2', word)
RECURSIVE SubCamel(_, _)
SubCamel(w, j) ==
  IF j > Len(w) THEN <<>>
  ELSE (IF /\ j >= 2
           /\ IsLower(w[j - 1]) \/ IsDigit(w[j - 1])
           /\ IsUpper(w[j])
        THEN <<"_", w[j]>>
        ELSE <<w[j]>>) \o SubCamel(w, j + 1)

underscore(word) ==
  StrLower(ReplaceChar(SubCamel(SubAcronym(word, 1), 1), "-", "_"))

\* re.sub(r"(?:^|_)(.)", lambda m: m.group(1).upper(), string), scanning from
\* position i: at the start, or after an underscore that still has a
\* character behind it, the character is upper-cased and the underscore eaten.
RECURSIVE CamelizeFrom(_, _)
CamelizeFrom(s, i) ==
  IF i > Len(s) THEN <<>>
  ELSE IF i = 1 THEN <<ToUpper(s[1])>> \o CamelizeFrom(s, 2)
  ELSE IF s[i] = "_" /\ i < Len(s)
       THEN <<ToUpper(s[i + 1])>> \o CamelizeFrom(s, i + 2)
  ELSE <<s[i]>> \o CamelizeFrom(s, i + 1)

camelize(string) == CamelizeFrom(string, 1)

\* inflection.singularize, by the rules of its SINGULARS table that can match
\* the names the model enumerates, in the table's order:
\*   (alias|status)(es)?$ -> \1    ([ti])a$ -> \1um    (ss)$ -> \1    s$ -> ''
\* (all case-insensitive).
singularize(word) ==
  LET w == StrLower(word)
  IN  IF EndsWith(w, <<"s","t","a","t","u","s">>) \/ EndsWith(w, <<"a","l","i","a","s">>)
        THEN word
      ELSE IF EndsWith(w, <<"s","t","a","t","u","s","e","s">>)
              \/ EndsWith(w, <<"a","l","i","a","s","e","s">>)
        THEN DropLast(word, 2)
      ELSE IF EndsWith(w, <<"t","a">>) \/ EndsWith(w, <<"i","a">>)
        THEN DropLast(word, 1) \o <<"u","m">>
      ELSE IF EndsWith(w, <<"s","s">>)
        THEN word
      ELSE IF EndsWith(w, <<"s">>)
        THEN DropLast(word, 1)
      ELSE word

\* Python keywords that occur among the attribute names of the model
Keywords == { <<"i","n">>, <<"i","s">>, <<"a","s">>, <<"o","r">>, <<"i","f">> }

NORMALIZATION_PREFIX == <<"o","v","e","r","r","i","d","d","e","n","_","_">>

\* typeit.utils.normalize_name: '-' becomes '_'; a keyword, or a name that
\* starts with an underscore or a digit, gets the prefix.
normalize_name(name) ==
  LET being_normalized == ReplaceChar(name, "-", "_")
  IN  IF \/ being_normalized \in Keywords
         \/ /\ being_normalized # <<>>
            /\ being_normalized[1] = "_" \/ IsDigit(being_normalized[1])
      THEN NORMALIZATION_PREFIX \o being_normalized
      ELSE being_normalized

(***************************************************************************)
(* pythonize_path_segment / camelized_python_name                          *)
(***************************************************************************)

PlaceholderChars == {"{", "}"}

RemoveChars == {".", ","} \cup PlaceholderChars

\* the characters of seg that the loop keeps
KeptChars(seg) == SelectSeq(seg, LAMBDA c : c \notin RemoveChars)

\* the placeholder token made of the kept characters as they are written
pythonize_path_segment_as_written(seg) ==
  LET is_placeholder == \E i \in 1..Len(seg) : seg[i] \in PlaceholderChars
      final_underscored == underscore(KeptChars(seg))
      rv == IF is_placeholder THEN <<"b","y","_">> \o final_underscored
            ELSE IF final_underscored # <<>> /\ IsDigit(final_underscored[1])
                 THEN <<"v">> \o final_underscored
            ELSE final_underscored
  IN  [ original    |-> seg,
        segment     |-> rv,
        placeholder |-> IF is_placeholder
                        THEN Some(<<"{">> \o KeptChars(seg) \o <<"}">>)
                        ELSE None,
        failed      |-> ~is_placeholder /\ final_underscored = <<>> ]

\* the version prefix put in front of every segment that is no placeholder
pythonize_path_segment_always_versioned(seg) ==
  LET is_placeholder == \E i \in 1..Len(seg) : seg[i] \in PlaceholderChars
      final_underscored == underscore(KeptChars(seg))
      rv == IF is_placeholder THEN <<"b","y","_">> \o final_underscored
            ELSE <<"v">> \o final_underscored
  IN  [ original    |-> seg,
        segment     |-> rv,
        placeholder |-> IF is_placeholder
                        THEN Some(<<"{">> \o final_underscored \o <<"}">>)
                        ELSE None,
        failed      |-> ~is_placeholder /\ final_underscored = <<>> ]

\* rv[0] of an empty string raises IndexError: failed is TRUE then.
pythonize_path_segment(seg) ==
  LET is_placeholder == \E i \in 1..Len(seg) : seg[i] \in PlaceholderChars
      final_underscored == underscore(KeptChars(seg))
      rv == IF is_placeholder THEN <<"b","y","_">> \o final_underscored
            ELSE IF final_underscored # <<>> /\ IsDigit(final_underscored[1])
                 THEN <<"v">> \o final_underscored
            ELSE final_underscored
  IN  [ original    |-> seg,
        segment     |-> rv,
        placeholder |-> IF is_placeholder
                        THEN Some(<<"{">> \o final_underscored \o <<"}">>)
                        ELSE None,
        failed      |-> ~is_placeholder /\ final_underscored = <<>> ]

camelized_python_name(irregular_source) ==
  camelize(pythonize_path_segment(irregular_source).segment)

\* str.split(sep) for a separator of one character, cur being the part under way
RECURSIVE SplitFrom(_, _, _)
SplitFrom(s, sep, cur) ==
  IF s = <<>> THEN <<cur>>
  ELSE IF s[1] = sep THEN <<cur>> \o SplitFrom(Tail(s), sep, <<>>)
  ELSE SplitFrom(Tail(s), sep, Append(cur, s[1]))

Split(s, sep) == SplitFrom(s, sep, <<>>)

\* x.strip() is not empty
NotBlank(x) == \E i \in 1..Len(x) : x[i] # " "

\* the segments of api_path_to_filepath, taken from the parts of the path
PathSegments(parts) ==
  LET kept == SelectSeq(parts, NotBlank)
  IN  [i \in 1..Len(kept) |-> pythonize_path_segment(kept[i])]

\* EndpointSegments, or the IndexError of a segment
EndpointSegments(segments) ==
  IF \E i \in 1..Len(segments) : segments[i].failed
    THEN [err |-> "IndexError", segments |-> <<>>]
  ELSE IF segments = <<>>
    THEN [err |-> "none",
          segments |-> << [original |-> <<"/">>, segment |-> <<"r","o","o","t">>, placeholder |-> None,
                           failed |-> FALSE] >>]
  ELSE [err |-> "none", segments |-> segments]

api_path_to_filepath(api_path) == EndpointSegments(PathSegments(Split(api_path, "/")))

(***************************************************************************)
(* Schemas (openapi_type), TypeAttr, TypeContext                           *)
(***************************************************************************)

\* A schema is a record tagged by kind; properties is the ordered mapping of
\* an object, a sequence of <<name, schema>>.
StringValue(enum, default) == [kind |-> "string", enum |-> enum, default |-> default]

IntegerValue(default) == [kind |-> "integer", default |-> default]

FloatValue(default) == [kind |-> "float", default |-> default]

BooleanValue(default) == [kind |-> "boolean", default |-> default]

ObjectValue(properties, required) ==
  [kind |-> "object", properties |-> properties, required |-> required]

InlinedObjectValue(properties, required) ==
  [kind |-> "inlined_object", properties |-> properties, required |-> required]

Reference(location, name) == [kind |-> "ref", location |-> location, name |-> name]

ArrayValue(items) == [kind |-> "array", items |-> items]

\* additional_properties is [kind |-> "None"], [kind |-> "True"],
\* [kind |-> "False"] or a schema
ObjectWithAdditionalProperties(additional_properties) ==
  [kind |-> "freeform", additional_properties |-> additional_properties]

ProductSchemaType(all_of) == [kind |-> "allOf", all_of |-> all_of]

UnionSchemaTypeOne(one_of) == [kind |-> "oneOf", items |-> one_of]

UnionSchemaTypeAny(any_of) == [kind |-> "anyOf", items |-> any_of]

EmptyValue == [kind |-> "empty"]

TypeAttr(name, datatype, is_required, default) ==
  [name |-> name, datatype |-> datatype, is_required |-> is_required, default |-> default]

\* site is not a field of the code's TypeContext: it records the schema node
\* the definition was built from (the component's name, then the way down to
\* the node), which the code has as the identity of the schema object.
TypeContext(name, attrs, is_enum, common_reference_as, site) ==
  [ name |-> name, attrs |-> attrs, is_enum |-> is_enum,
    common_reference_as |-> common_reference_as, overrides |-> <<>>, site |-> site ]

\* TypeAttr.default_repr
default_repr(a) ==
  IF a.default.some /\ a.default.val # <<>> THEN a.default
  ELSE IF ~a.is_required THEN Some(<<"N","o","n","e">>)
  ELSE None

s_int == <<"i","n","t">>
s_str == <<"s","t","r">>
s_float == <<"f","l","o","a","t">>
s_bool == <<"b","o","o","l">>
s_Any == <<"A","n","y">>
s_Sequence == <<"S","e","q","u","e","n","c","e">>
s_Union == <<"U","n","i","o","n">>
s_Mapping == <<"M","a","p","p","i","n","g">>
s_None == <<"N","o","n","e">>

EMPTY_NAME == <<"E","M","P","T","Y">>

\* NON_PYTHONIC_SYMBOLS.sub('_', x) for the pattern [/:]
NonPythonicSub(x) ==
  [i \in 1..Len(x) |-> IF x[i] \in {"/", ":"} THEN "_" ELSE x[i]]

\* the attr_name_normalizer of a call: underscore, the identity, or
\* lambda x: underscore(x.lower())
ApplyNormalizer(norm, x) ==
  CASE norm = "underscore" -> underscore(x)
    [] norm = "lower_underscore" -> underscore(StrLower(x))
    [] OTHER -> x

(***************************************************************************)
(* The registry of component schemas                                       *)
(***************************************************************************)

\* The component schemas are a sequence of [name, schema] in declaration
\* order (schemas.items()); normalized_registry maps camelized_python_name(k)
\* to the same schema objects, the last declaration winning a shared key.
\* RegistryIndex is the position of the object a key maps to, 0 for no key.
RegistryIndex(heap, key) ==
  LET hits == {i \in 1..Len(heap) : camelized_python_name(heap[i].name) = key}
  IN  IF hits = {} THEN 0 ELSE CHOOSE i \in hits : \A j \in hits : j <= i

\* Parsed, with the registry as the call left it and the references it met
Parsed(actual_type_name, default_value, final_types, heap, refs) ==
  [ err |-> "none", actual_type_name |-> actual_type_name,
    default_value |-> default_value, final_types |-> final_types,
    registry |-> heap, refs |-> refs ]

\* an exception leaving the call
Raised(e, heap, refs) ==
  [ err |-> e, actual_type_name |-> <<>>, default_value |-> None,
    final_types |-> <<>>, registry |-> heap, refs |-> refs ]

(***************************************************************************)
(* Merge strategy (deepmerge) of allOf                                     *)
(***************************************************************************)

\* a merge in which the earlier value stays
MergeValueKeepBase(base, nxt) == base

\* the fallback and type-conflict strategy "override": the later value wins
MergeValue(base, nxt) == nxt

PropertyIndex(properties, k) ==
  LET hits == {i \in 1..Len(properties) : properties[i][1] = k}
  IN  IF hits = {} THEN 0 ELSE CHOOSE i \in hits : TRUE

\* (dict, "merge") on the two properties mappings: a key of nxt that base has
\* keeps its place and takes the merged value, a new key goes to the end.
RECURSIVE MergeProperties(_, _)
MergeProperties(base, nxt) ==
  IF nxt = <<>> THEN base
  ELSE LET k == nxt[1][1]
           v == nxt[1][2]
           i == PropertyIndex(base, k)
       IN  MergeProperties(
             IF i = 0 THEN Append(base, <<k, v>>)
             ELSE [base EXCEPT ![i] = <<k, MergeValue(base[i][2], v)>>],
             Tail(nxt))

\* (frozenset, add_to_set)
add_to_set(base, nxt) == base \cup nxt

(***************************************************************************)
(* recursive_resolve_schema                                                *)
(***************************************************************************)

\* final_types of _process_object: the children's definitions, then the
\* object's own
ObjectFinalTypes(children, own) == Append(children, own)

\* the member attributes of an enum
EnumMemberName(x) ==
  IF x # <<>> THEN StrUpper(underscore(NonPythonicSub(x))) ELSE EMPTY_NAME

EnumOptions(enum) ==
  [i \in 1..Len(enum) |->
     TypeAttr(EnumMemberName(enum[i]), s_str, TRUE, Some(<<"'">> \o enum[i] \o <<"'">>))]

\* the enum branch of _process_string_or_enum
EnumParsed(heap, site, schema, actual_type_name) ==
  Parsed(actual_type_name,
         IF ~schema.default.some THEN None
         ELSE Some(actual_type_name \o <<"(", "'">> \o schema.default.val \o <<"'", ")">>),
         <<TypeContext(actual_type_name, EnumOptions(schema.enum), TRUE, None, site)>>,
         heap, <<>>)

_process_string_or_enum(heap, site, schema, suggested_type_name) ==
  IF schema.enum # <<>>
  THEN EnumParsed(heap, site, schema, camelized_python_name(suggested_type_name))
  ELSE Parsed(s_str,
              IF ~schema.default.some THEN None
              ELSE Some(<<"'">> \o schema.default.val \o <<"'">>),
              <<>>, heap, <<>>)

\* _process_integer, _process_float, _process_bool: the default is carried as
\* the text str() gives
_process_primitive(heap, schema, type_name) ==
  Parsed(type_name, schema.default, <<>>, heap, <<>>)

_process_empty_value(heap) == Parsed(s_Any, Some(s_None), <<>>, heap, <<>>)

\* where the properties mapping that the reduce merges into lives: the
\* component at .idx ("component"), the first member of the allOf component
\* at .idx ("member"), or an object no other call can reach ("private")
MergeTarget(heap, site, member) ==
  IF member.kind = "ref"
  THEN [at |-> "component", idx |-> RegistryIndex(heap, camelized_python_name(member.name))]
  ELSE IF Len(site) = 1 /\ RegistryIndex(heap, camelized_python_name(site[1])) # 0
  THEN [at |-> "member", idx |-> RegistryIndex(heap, camelized_python_name(site[1]))]
  ELSE [at |-> "private", idx |-> 0]

\* the registry after the in-place merge left properties in the mapping at target
WriteProperties(heap, target, properties) ==
  IF target.at = "component"
  THEN [heap EXCEPT ![target.idx].schema.properties = properties]
  ELSE IF target.at = "member" /\ heap[target.idx].schema.kind = "allOf"
  THEN [heap EXCEPT ![target.idx].schema.all_of[1].properties = properties]
  ELSE heap

\* merge_strategy.merge(base, nxt) for the dict of one more object: base is
\* acc (has_type / has_properties say which keys it holds, extra that it holds
\* a key ObjectValue does not take). The first properties mapping is taken as
\* it is, every later one is merged into it in place.
MergeObject(site, acc, x, obj, merged) ==
  IF ~acc.has_properties
  THEN [acc EXCEPT !.has_properties = TRUE,
                   !.has_type = @ \/ obj.kind = "object",
                   !.properties = obj.properties,
                   !.required = obj.required,
                   !.target = MergeTarget(acc.registry, site, x)]
  ELSE [acc EXCEPT !.has_type = @ \/ obj.kind = "object",
                   !.properties = merged,
                   !.required = add_to_set(acc.required, obj.required),
                   !.registry = WriteProperties(acc.registry, acc.target, merged)]

\* find_reference(x, registry) for a member that is a reference at position
\* idx of the registry (0: no such key), the member itself otherwise, then
\* the merge
MergeMember(site, acc, x, idx) ==
  IF x.kind = "ref" /\ idx = 0
    THEN [acc EXCEPT !.err = "NotImplementedError"]
  ELSE IF x.kind = "ref" /\ acc.registry[idx].schema.kind # "object"
    THEN [acc EXCEPT !.err = "AssertionError"]
  ELSE IF x.kind = "ref"
    THEN MergeObject(site, acc, x, acc.registry[idx].schema,
                     MergeProperties(acc.properties, acc.registry[idx].schema.properties))
  ELSE IF x.kind \in {"object", "inlined_object"}
    THEN MergeObject(site, acc, x, x, MergeProperties(acc.properties, x.properties))
  ELSE [acc EXCEPT !.extra = TRUE]

\* reduce(merge_strategy.merge, to_merge, {}) over the members from position
\* i on; a member is dereferenced as the reduce reaches it.
RECURSIVE MergeMembers(_, _, _, _)
MergeMembers(site, all_of, i, acc) ==
  IF i > Len(all_of) \/ acc.err # "none" THEN acc
  ELSE MergeMembers(site, all_of, i + 1,
         MergeMember(site, acc, all_of[i],
                     IF all_of[i].kind = "ref"
                     THEN RegistryIndex(acc.registry, camelized_python_name(all_of[i].name))
                     ELSE 0))

EmptyDict(heap) ==
  [ err |-> "none", registry |-> heap, extra |-> FALSE,
    has_type |-> FALSE, has_properties |-> FALSE,
    properties |-> <<>>, required |-> {},
    target |-> [at |-> "private", idx |-> 0] ]

\* one pass of the loop of _process_object, r being what the resolver
\* returned for the property
PropertyStep(acc, attr_name, is_required, norm, r) ==
  [ err         |-> r.err,
    registry    |-> r.registry,
    refs        |-> acc.refs \o r.refs,
    final_types |-> acc.final_types \o r.final_types,
    attrs       |-> IF r.err # "none" THEN acc.attrs
                    ELSE Append(acc.attrs,
                           TypeAttr(normalize_name(ApplyNormalizer(norm, attr_name)),
                                    r.actual_type_name, is_required, r.default_value)) ]

\* what _process_object returns after its loop ended as acc
ObjectParsed(site, name, acc) ==
  IF acc.err # "none" THEN Raised(acc.err, acc.registry, acc.refs)
  ELSE Parsed(name, None,
              ObjectFinalTypes(acc.final_types, TypeContext(name, acc.attrs, FALSE, None, site)),
              acc.registry, acc.refs)

\* a pass that puts the name of its variant ahead of the earlier ones
VariantStepNewestFirst(acc, r) ==
  [ err         |-> r.err,
    registry    |-> r.registry,
    refs        |-> acc.refs \o r.refs,
    final_types |-> acc.final_types \o r.final_types,
    options     |-> IF r.err # "none" THEN acc.options
                    ELSE <<r.actual_type_name>> \o acc.options ]

\* one pass of the loop of _process_unions
VariantStep(acc, r) ==
  [ err         |-> r.err,
    registry    |-> r.registry,
    refs        |-> acc.refs \o r.refs,
    final_types |-> acc.final_types \o r.final_types,
    options     |-> IF r.err # "none" THEN acc.options
                    ELSE Append(acc.options, r.actual_type_name) ]

\* what _process_unions returns after its loop ended as acc
UnionParsed(acc) ==
  IF acc.err # "none" THEN Raised(acc.err, acc.registry, acc.refs)
  ELSE Parsed(s_Union \o <<"[">> \o Join(<<",", " ">>, acc.options) \o <<"]">>,
              None, acc.final_types, acc.registry, acc.refs)

\* what _process_array returns, r being what the resolver returned for items
ArrayParsed(r) ==
  IF r.err # "none" THEN r
  ELSE Parsed(s_Sequence \o <<"[">> \o r.actual_type_name \o <<"]">>,
              None, r.final_types, r.registry, r.refs)

\* _process_reference, found in common_types. refs gets one entry per
\* reference resolved: the key, the type name the reference resolved to and
\* the branch that resolved it.
CommonParsed(heap, reference_key, actual_type_name) ==
  Parsed(actual_type_name, None, <<>>, heap,
         <<[key |-> reference_key, name |-> actual_type_name, via |-> "common"]>>)

\* _process_reference, resolved from the registry as r
RegistryParsed(reference_key, r) ==
  IF r.err # "none" THEN r
  ELSE Parsed(r.actual_type_name, r.default_value, r.final_types, r.registry,
              Append(r.refs, [key |-> reference_key, name |-> r.actual_type_name,
                              via |-> "registry"]))

RECURSIVE recursive_resolve_schema(_, _, _, _, _, _, _)
RECURSIVE ResolveProperties(_, _, _, _, _, _, _, _)
RECURSIVE ResolveVariants(_, _, _, _, _, _, _, _)

\* the loop of _process_object over schema.properties.items() from position i
ResolveProperties(common_types, site, suggested_type_name, schema, norm, fuel, i, acc) ==
  IF i > Len(schema.properties) \/ acc.err # "none" THEN acc
  ELSE ResolveProperties(common_types, site, suggested_type_name, schema, norm, fuel, i + 1,
         PropertyStep(acc, schema.properties[i][1],
                      schema.properties[i][1] \in schema.required, norm,
                      recursive_resolve_schema(
                        acc.registry, common_types, Append(site, schema.properties[i][1]),
                        camelized_python_name(
                          Join(<<"_">>, <<suggested_type_name, schema.properties[i][1]>>)),
                        schema.properties[i][2], norm, fuel)))

_process_object(heap, common_types, site, suggested_type_name, schema, norm, fuel) ==
  ObjectParsed(site, camelized_python_name(suggested_type_name),
    ResolveProperties(common_types, site, suggested_type_name, schema, norm, fuel, 1,
      [err |-> "none", registry |-> heap, refs |-> <<>>, final_types |-> <<>>, attrs |-> <<>>]))

\* the loop of _process_unions over the variants from position i
ResolveVariants(common_types, site, suggested_type_name, items, norm, fuel, i, acc) ==
  IF i > Len(items) \/ acc.err # "none" THEN acc
  ELSE ResolveVariants(common_types, site, suggested_type_name, items, norm, fuel, i + 1,
         VariantStep(acc,
           recursive_resolve_schema(
             acc.registry, common_types, Append(site, <<"v","a","r", digits[i + 1]>>),
             camelize(camelized_python_name(suggested_type_name)
                        \o <<"_","v","a","r">> \o <<digits[Len(acc.options) + 2]>>),
             items[i], norm, fuel)))

_process_unions(heap, common_types, site, suggested_type_name, schema, norm, fuel) ==
  UnionParsed(
    ResolveVariants(common_types, site, suggested_type_name, schema.items, norm, fuel, 1,
      [err |-> "none", registry |-> heap, refs |-> <<>>, final_types |-> <<>>,
       options |-> <<>>]))

\* schema_ = oas.ObjectValue(**red), which takes type and properties and no
\* foreign key, and the resolver on schema_
ResolveMerged(common_types, site, suggested_type_name, norm, fuel, red) ==
  IF red.err # "none" THEN Raised(red.err, red.registry, <<>>)
  ELSE IF red.extra \/ ~red.has_type \/ ~red.has_properties
    THEN Raised("TypeError", red.registry, <<>>)
  ELSE recursive_resolve_schema(red.registry, common_types, site, suggested_type_name,
                                ObjectValue(red.properties, red.required), norm, fuel)

_process_product_schema_type(heap, common_types, site, suggested_type_name, schema, norm, fuel) ==
  ResolveMerged(common_types, site, suggested_type_name, norm, fuel,
                MergeMembers(site, schema.all_of, 1, EmptyDict(heap)))

_process_freeform_object(heap, common_types, site, suggested_type_name, schema, norm, fuel) ==
  IF schema.additional_properties.kind \in {"None", "True"}
    THEN Parsed(s_Mapping \o <<"[">> \o s_Any \o <<",", " ">> \o s_Any \o <<"]">>,
                None, <<>>, heap, <<>>)
  ELSE IF schema.additional_properties.kind = "False"
    THEN Raised("NotImplementedError", heap, <<>>)
  ELSE recursive_resolve_schema(heap, common_types, site, suggested_type_name,
                                schema.additional_properties, norm, fuel)

_process_array(heap, common_types, site, suggested_type_name, schema, norm, fuel) ==
  ArrayParsed(
    recursive_resolve_schema(heap, common_types, Append(site, <<"[", "]">>),
                             singularize(suggested_type_name), schema.items, norm, fuel))

\* _process_reference for a reference to the key reference_key, which the
\* registry holds at position idx (0: not at all)
ResolveReference(heap, common_types, schema, norm, fuel, reference_key, idx) ==
  IF reference_key \in DOMAIN common_types
    THEN CommonParsed(heap, reference_key,
                      camelized_python_name(common_types[reference_key].name))
  ELSE IF idx = 0
    THEN Raised("KeyError", heap, <<>>)
  ELSE RegistryParsed(reference_key,
         recursive_resolve_schema(heap, common_types, <<schema.name>>, schema.name,
                                  heap[idx].schema, norm, fuel))

_process_reference(heap, common_types, site, suggested_type_name, schema, norm, fuel) ==
  IF schema.location # "schemas" THEN Raised("NotImplementedError", heap, <<>>)
  ELSE ResolveReference(heap, common_types, schema, norm, fuel,
                        camelized_python_name(schema.name),
                        RegistryIndex(heap, camelized_python_name(schema.name)))

\* fuel is the number of nested calls the interpreter still allows: Python
\* raises RecursionError when the call stack outgrows its limit.
recursive_resolve_schema(heap, common_types, site, suggested_type_name, schema, norm, fuel) ==
  IF fuel = 0 THEN Raised("RecursionError", heap, <<>>)
  ELSE
    CASE schema.kind = "string" ->
           _process_string_or_enum(heap, site, schema, suggested_type_name)
      [] schema.kind = "integer" -> _process_primitive(heap, schema, s_int)
      [] schema.kind = "float" -> _process_primitive(heap, schema, s_float)
      [] schema.kind = "boolean" -> _process_primitive(heap, schema, s_bool)
      [] schema.kind = "object" ->
           _process_object(heap, common_types, site, suggested_type_name, schema, norm, fuel - 1)
      [] schema.kind = "ref" ->
           _process_reference(heap, common_types, site, suggested_type_name, schema, norm, fuel - 1)
      [] schema.kind = "array" ->
           _process_array(heap, common_types, site, suggested_type_name, schema, norm, fuel - 1)
      [] schema.kind = "freeform" ->
           _process_freeform_object(heap, common_types, site, suggested_type_name, schema, norm,
                                    fuel - 1)
      [] schema.kind = "allOf" ->
           _process_product_schema_type(heap, common_types, site, suggested_type_name, schema,
                                        norm, fuel - 1)
      [] schema.kind \in {"anyOf", "oneOf"} ->
           _process_unions(heap, common_types, site, suggested_type_name, schema, norm, fuel - 1)
      [] schema.kind = "empty" -> _process_empty_value(heap)
      [] schema.kind = "inlined_object" ->
           recursive_resolve_schema(heap, common_types, site, suggested_type_name,
                                    ObjectValue(schema.properties, schema.required), norm,
                                    fuel - 1)
      [] OTHER -> Raised("NotImplementedError", heap, <<>>)

(***************************************************************************)
(* TypeContext.ordered_attrs                                               *)
(***************************************************************************)

\* (x.is_required, x.name) < (y.is_required, y.name) on Python tuples
AttrKeyLess(x, y) ==
  \/ ~x.is_required /\ y.is_required
  \/ x.is_required = y.is_required /\ StrLess(x.name, y.name)

\* sorted(attrs, key=..., reverse=reverse), from out on. The sort is stable
\* in both directions: an element goes behind every element already placed
\* that does not have to come after it.
RECURSIVE Sorted(_, _, _)
Sorted(attrs, out, reverse) ==
  IF attrs = <<>> THEN out
  ELSE LET x == attrs[1]
           n == Cardinality({i \in 1..Len(out) :
                               IF reverse THEN ~AttrKeyLess(out[i], x)
                               ELSE ~AttrKeyLess(x, out[i])})
       IN  Sorted(Tail(attrs),
                  SubSeq(out, 1, n) \o <<x>> \o SubSeq(out, n + 1, Len(out)),
                  reverse)

\* ordered_attrs without reverse=True
ordered_attrs_unreversed(t) == Sorted(t.attrs, <<>>, FALSE)

ordered_attrs(t) == Sorted(t.attrs, <<>>, TRUE)

(***************************************************************************)
(* The component schemas the model resolves                                *)
(***************************************************************************)

n_id == <<"i","d">>
n_name == <<"n","a","m","e">>
n_tag == <<"t","a","g">>
n_tags == <<"t","a","g","s">>
n_pet == <<"p","e","t">>
n_kind == <<"k","i","n","d">>
n_status == <<"s","t","a","t","u","s">>
n_order == <<"o","r","d","e","r">>
n_state == <<"s","t","a","t","e">>
n_next == <<"n","e","x","t">>
n_ping == <<"p","i","n","g">>
n_pong == <<"p","o","n","g">>
n_Id == <<"I","d">>
n_Pet == <<"P","e","t">>
n_Owner == <<"O","w","n","e","r">>
n_Tags == <<"T","a","g","s">>
n_Shelf == <<"S","h","e","l","f">>
n_Box == <<"B","o","x">>
n_Kind == <<"K","i","n","d">>
n_Crate == <<"C","r","a","t","e">>
n_Bin == <<"B","i","n">>
n_Node == <<"N","o","d","e">>
n_Ping == <<"P","i","n","g">>
n_Pong == <<"P","o","n","g">>
n_Order == <<"O","r","d","e","r">>
n_OrderStatus == <<"O","r","d","e","r","S","t","a","t","u","s">>
n_Cart == <<"C","a","r","t">>
n_A == <<"A">>
n_B == <<"B">>
n_C == <<"C">>
n_a__b == <<"a","_","_","b">>
n_Holder == <<"H","o","l","d","e","r">>
n_Keeper == <<"K","e","e","p","e","r">>
n_item == <<"i","t","e","m">>
n_x == <<"x">>
n_y == <<"y">>
n_z == <<"z">>

Component(name, schema) == [name |-> name, schema |-> schema]

SchemaRef(name) == Reference("schemas", name)

\* a primitive component and two objects that refer to it
PrimitiveFamily ==
  { Component(n_Id, IntegerValue(None)),
    Component(n_Pet, ObjectValue(<< <<n_id, SchemaRef(n_Id)>>,
                                    <<n_name, StringValue(<<>>, None)>>,
                                    <<n_tag, StringValue(<<>>, None)>> >>,
                                 {n_id, n_name})),
    Component(n_Owner, ObjectValue(<< <<n_id, SchemaRef(n_Id)>>,
                                      <<n_pet, SchemaRef(n_Pet)>> >>,
                                   {n_pet})) }

\* an array component and two objects that refer to it
ArrayFamily ==
  { Component(n_Tags, ArrayValue(ObjectValue(<< <<n_name, StringValue(<<>>, None)>> >>, {}))),
    Component(n_Shelf, ObjectValue(<< <<n_tags, SchemaRef(n_Tags)>> >>, {})),
    Component(n_Box, ObjectValue(<< <<n_tags, SchemaRef(n_Tags)>> >>, {n_tags})) }

\* a union component and two objects that refer to it
UnionFamily ==
  { Component(n_Kind, UnionSchemaTypeOne(<< ObjectValue(<< <<n_id, IntegerValue(None)>> >>, {}),
                                            StringValue(<<>>, None) >>)),
    Component(n_Crate, ObjectValue(<< <<n_kind, SchemaRef(n_Kind)>> >>, {})),
    Component(n_Bin, ObjectValue(<< <<n_kind, SchemaRef(n_Kind)>> >>, {})) }

\* a schema that refers to itself and two that refer to each other
CycleFamily ==
  { Component(n_Node, ObjectValue(<< <<n_next, SchemaRef(n_Node)>> >>, {})),
    Component(n_Ping, ObjectValue(<< <<n_pong, SchemaRef(n_Pong)>> >>, {})),
    Component(n_Pong, ObjectValue(<< <<n_ping, SchemaRef(n_Ping)>> >>, {})) }

\* inline schemas that take generated names, an enum component, a referrer
NamingFamily ==
  { Component(n_Order,
      ObjectValue(<< <<n_status, StringValue(<< <<"p","l","a","c","e","d">>,
                                                <<"s","e","n","t">> >>, None)>>,
                     <<n_tag, ObjectValue(<< <<n_id, IntegerValue(None)>> >>, {})>>,
                     <<n_tags, ArrayValue(ObjectValue(<< <<n_name, StringValue(<<>>, None)>> >>,
                                                      {}))>> >>,
                  {n_status})),
    Component(n_OrderStatus,
      StringValue(<< <<"a","-","b">>, <<"a","_","b">>, <<>> >>, None)),
    Component(n_Cart, ObjectValue(<< <<n_order, SchemaRef(n_Order)>>,
                                     <<n_state, SchemaRef(n_OrderStatus)>> >>, {})) }

\* A{x, y}, B{y, z} and their intersection
ProductFamily ==
  { Component(n_A, ObjectValue(<< <<n_x, IntegerValue(None)>>, <<n_y, IntegerValue(None)>> >>,
                               {n_x})),
    Component(n_B, ObjectValue(<< <<n_y, StringValue(<<>>, None)>>,
                                  <<n_z, BooleanValue(None)>> >>,
                               {n_z})),
    Component(n_C, ProductSchemaType(<<SchemaRef(n_A), SchemaRef(n_B)>>)) }

\* a component whose name has two underscores in a row, and two referrers
UnderscoreFamily ==
  { Component(n_a__b, ObjectValue(<< <<n_id, IntegerValue(None)>> >>, {})),
    Component(n_Holder, ObjectValue(<< <<n_item, SchemaRef(n_a__b)>> >>, {})),
    Component(n_Keeper, ObjectValue(<< <<n_item, SchemaRef(n_a__b)>> >>, {n_item})) }

n_X == <<"X">>
n_choice == <<"c","h","o","i","c","e">>
n_Wrap == <<"W","r","a","p">>
n_a == <<"a">>

\* unions: a string or an object, a union with a reference, an enum and a
\* primitive for variants, a union of one variant
VariantFamily ==
  { Component(n_X, UnionSchemaTypeOne(<< StringValue(<<>>, None),
                                         ObjectValue(<< <<n_a, IntegerValue(None)>> >>, {}) >>)),
    Component(n_choice, UnionSchemaTypeAny(<< SchemaRef(n_X),
                                              StringValue(<<<<"o","n">>, <<"o","f","f">>>>, None),
                                              IntegerValue(None) >>)),
    Component(n_Wrap, UnionSchemaTypeOne(<< ArrayValue(ObjectValue(<< <<n_a, BooleanValue(None)>> >>,
                                                                  {n_a})) >>)) }

Families ==
  { PrimitiveFamily, ArrayFamily, UnionFamily, CycleFamily, NamingFamily, ProductFamily,
    UnderscoreFamily, VariantFamily }

\* the most component schemas of one specification
MaxSchemas == 3

\* the depth of nested resolver calls the interpreter allows
\* (sys.getrecursionlimit() frames in CPython)
RecursionLimit == 12

\* the declarations of components.schemas: components of one family under
\* pairwise different names, in any order
SchemaInputs ==
  UNION { { q \in [1..n -> F] : \A i, j \in 1..n : i # j => q[i].name # q[j].name }
          : <<n, F>> \in (1..MaxSchemas) \X Families }

\* pmap(): the empty mapping
EmptyMap == [k \in {} |-> k]

\* PMap.set
MapSet(m, k, v) == (k :> v) @@ m

(***************************************************************************)
(* OpenAPI operations                                                      *)
(***************************************************************************)

\* oas.ContentTypeFormat
ContentTypeFormat ==
  {"JSON", "XML", "TEXT", "FORM_URLENCODED", "BINARY_STREAM", "EVENT_STREAM", "ANYTHING"}

\* oas.MediaType: schema is a schema, or NoSchema for None
MediaType(schema) == [schema |-> schema]

NoSchema == [kind |-> "None"]

\* oas.RequestBody: content is the declared <<content type format, media type>>
\* entries in order
RequestBody(content) == [content |-> content]

\* oas.Response
Response(content) == [kind |-> "response", content |-> content]

\* oas.OperationParameter
OperationParameter(name, in_, schema, required) ==
  [kind |-> "parameter", name |-> name, in_ |-> in_, schema |-> schema, required |-> required]

\* oas.Operation: parameters in order, request_body optional, responses the
\* declared <<status, response>> entries in order
Operation(parameters, request_body, responses) ==
  [parameters |-> parameters, request_body |-> request_body, responses |-> responses]

\* the operation fields of oas.PathItem that iter_supported_methods takes
PathItemMethods == <<"head", "get", "post", "put", "patch", "delete", "trace">>

\* the fields of a path item that hold an operation, as path._asdict()
\* goes through them: those of methods, and options
PathItemFields == <<"head", "get", "post", "put", "patch", "delete", "trace", "options">>

s_Request == <<"R","e","q","u","e","s","t">>
s_Response == <<"R","e","s","p","o","n","s","e">>

DEFAULT_QUERY_PARAMS_TYPE == TypeContext(<<"Q","u","e","r","y">>, <<>>, FALSE, None, <<<<"Q","u","e","r","y">>>>)

DEFAULT_PATH_PARAMS_TYPE == TypeContext(<<"P","a","r","a","m","s">>, <<>>, FALSE, None, <<<<"P","a","r","a","m","s">>>>)

DEFAULT_REQUEST_TYPE == TypeContext(s_Request, <<>>, FALSE, None, <<s_Request>>)

DEFAULT_RESPONSE_TYPE == TypeContext(s_Response, <<>>, FALSE, None, <<s_Response>>)

DEFAULT_HEADERS_TYPE ==
  TypeContext(<<"H","e","a","d","e","r","s">>,
    << TypeAttr(<<"a","c","c","e","p","t">>, s_str, TRUE, Some(<<"'","a","p","p","l","i","c","a","t","i","o","n","/","j","s","o","n","'">>)),
       TypeAttr(<<"c","o","n","t","e","n","t","_","t","y","p","e">>, s_str, TRUE, Some(<<"'","a","p","p","l","i","c","a","t","i","o","n","/","j","s","o","n","'">>)),
       TypeAttr(<<"a","c","c","e","p","t","_","c","h","a","r","s","e","t">>, s_str, TRUE, Some(<<"'","u","t","f","-","8","'">>)),
       TypeAttr(<<"a","u","t","h","o","r","i","z","a","t","i","o","n">>, s_str, FALSE, Some(s_None)) >>,
    FALSE, None, <<<<"H","e","a","d","e","r","s">>>>)

\* PARAM_CONTAINERS
PARAM_CONTAINERS == [query |-> <<>>, path |-> <<>>, header |-> <<>>, cookie |-> <<>>]

\* the parameter put in front of those its container holds
assign_param_to_container_in_front(containers, param) ==
  IF param.in_ \notin DOMAIN PARAM_CONTAINERS
  THEN [err |-> "NotImplementedError", containers |-> containers]
  ELSE [err |-> "none",
        containers |-> [containers EXCEPT ![param.in_] = <<param>> \o @]]

\* assign_param_to_container, err being the exception it leaves with
assign_param_to_container(containers, param) ==
  IF param.in_ \notin DOMAIN PARAM_CONTAINERS
  THEN [err |-> "NotImplementedError", containers |-> containers]
  ELSE [err |-> "none",
        containers |-> [containers EXCEPT ![param.in_] = Append(@, param)]]

\* the loop over method.parameters from position i
RECURSIVE GroupParameters(_, _, _, _)
GroupParameters(common_params, parameters, i, acc) ==
  IF i > Len(parameters) \/ acc.err # "none" THEN acc
  ELSE GroupParameters(common_params, parameters, i + 1,
         IF parameters[i].kind = "parameter"
           THEN assign_param_to_container(acc.containers, parameters[i])
         ELSE IF parameters[i].kind # "ref"
           THEN [acc EXCEPT !.err = "NotImplementedError"]
         ELSE IF parameters[i].name \notin DOMAIN common_params
           THEN [acc EXCEPT !.err = "KeyError"]
         ELSE assign_param_to_container(acc.containers, common_params[parameters[i].name]))

\* Params
Params(containers) ==
  [ query_params |-> containers.query, path_params |-> containers.path,
    header_params |-> containers.header, cookie_params |-> containers.cookie ]

\* the formats iter_supported_methods takes a request schema of
RequestFormats == {"JSON", "ANYTHING", "FORM_URLENCODED"}

\* the for ... else over request_body.content.items(): the schema of the
\* first entry of a format in RequestFormats, of the last entry if there is
\* none
RequestSchema(content) ==
  LET hits == {i \in 1..Len(content) : content[i][1] \in RequestFormats}
  IN  IF hits # {}
      THEN content[CHOOSE i \in hits : \A j \in hits : i <= j][2].schema
      ELSE content[Len(content)][2].schema

\* request_types with the alias added whatever the resolved name
RequestTypesAlwaysAlias(r) ==
  IF r.err # "none" THEN [err |-> r.err, types |-> <<>>]
  ELSE [err |-> "none",
        types |-> Append(r.final_types,
                    TypeContext(r.actual_type_name, <<>>, FALSE, Some(s_Request),
                                <<s_Request>>))]

\* request_types, r being what the resolver returned for the request schema
RequestTypes(r) ==
  IF r.err # "none" THEN [err |-> r.err, types |-> <<>>]
  ELSE IF r.actual_type_name # s_Request
    THEN [err |-> "none",
          types |-> Append(r.final_types,
                      TypeContext(r.actual_type_name, <<>>, FALSE, Some(s_Request),
                                  <<s_Request>>))]
  ELSE [err |-> "none", types |-> r.final_types]

\* the resolver call on the request schema, and request_types
RequestTypesOf(common_types, request_schema) ==
  RequestTypes(
    recursive_resolve_schema(<<>>, common_types, <<s_Request>>, s_Request, request_schema,
                             "underscore", RecursionLimit))

\* the request part of the loop body
ProcessRequestBody(common_types, method) ==
  IF ~method.request_body.some
    THEN [err |-> "none", types |-> <<DEFAULT_REQUEST_TYPE>>]
  ELSE IF method.request_body.val.content = <<>>
    THEN [err |-> "IndexError", types |-> <<>>]
  ELSE RequestTypesOf(common_types, RequestSchema(method.request_body.val.content))

\* the formats _process_response_type takes a response schema of
ResponseFormats == {"JSON", "ANYTHING", "FORM_URLENCODED", "EVENT_STREAM"}

StreamFormats == {"EVENT_STREAM", "BINARY_STREAM"}

\* the for ... else over response.content.items(): the position of the entry
\* taken and whether the loop found it (break) or fell through to the last
ResponseEntry(content) ==
  LET hits == {i \in 1..Len(content) : content[i][1] \in ResponseFormats}
  IN  IF hits # {}
      THEN [found |-> TRUE, at |-> CHOOSE i \in hits : \A j \in hits : i <= j]
      ELSE [found |-> FALSE, at |-> Len(content)]

\* DEFAULT_RESPONSE_TYPE._replace(name=..., attrs=pvector(), common_reference_as='Response')
ResponseAlias(name) == TypeContext(name, <<>>, FALSE, Some(s_Response), <<s_Response>>)

\* response_types, r being what the resolver returned for the response schema
ResponseTypes(is_stream, r) ==
  IF r.err # "none" THEN [err |-> r.err, is_stream |-> is_stream, types |-> <<>>]
  ELSE IF r.actual_type_name # s_Response
    THEN [err |-> "none", is_stream |-> is_stream,
          types |-> Append(r.final_types, ResponseAlias(r.actual_type_name))]
  ELSE [err |-> "none", is_stream |-> is_stream, types |-> r.final_types]

\* the rest of _process_response_type once the content entry is chosen
ResponseOfEntry(common_types, content, entry, response_is_stream) ==
  IF content[entry.at][2].schema = NoSchema
  THEN [err |-> "none",
        is_stream |-> IF entry.found THEN content[entry.at][1] \in StreamFormats
                      ELSE response_is_stream,
        types |-> <<ResponseAlias(s_Any)>>]
  ELSE ResponseTypes(
         IF entry.found THEN content[entry.at][1] \in StreamFormats ELSE response_is_stream,
         recursive_resolve_schema(<<>>, common_types, <<s_Response>>, s_Response,
                                  content[entry.at][2].schema, "underscore", RecursionLimit))

_process_response_type(common_types, response, response_is_stream) ==
  IF response.content = <<>>
  THEN [err |-> "none", is_stream |-> response_is_stream, types |-> <<ResponseAlias(s_None)>>]
  ELSE ResponseOfEntry(common_types, response.content, ResponseEntry(response.content),
                       response_is_stream)

\* the first declared response, whatever its status
SupportedResponseFirst(responses) == 1

\* the position in responses of the response iter_supported_methods takes:
\* that of status '200', the first one if there is none
SupportedResponse(responses) ==
  LET hits == {i \in 1..Len(responses) : responses[i][1] = <<"2","0","0">>}
  IN  IF hits # {} THEN CHOOSE i \in hits : \A j \in hits : j <= i ELSE 1

\* the response part of the loop body
ProcessResponses(common_types, common_responses, response) ==
  IF response.kind = "response"
    THEN _process_response_type(common_types, response, FALSE)
  ELSE IF response.kind # "ref"
    THEN [err |-> "NotImplementedError", is_stream |-> FALSE, types |-> <<>>]
  ELSE IF response.name \notin DOMAIN common_responses
    THEN [err |-> "TypeError", is_stream |-> FALSE, types |-> <<>>]
  ELSE _process_response_type(common_types, common_responses[response.name], FALSE)

\* one pass of the loop of infer_params_type, r being what the resolver
\* returned for the schema of param
ParamStep(acc, param, norm, r) ==
  IF r.err # "none" THEN [acc EXCEPT !.err = r.err]
  ELSE [ err |-> "none",
         final_types |-> acc.final_types \o r.final_types,
         overrides |->
           IF ApplyNormalizer(norm, param.name)
                # normalize_name(ApplyNormalizer(norm, param.name))
           THEN MapSet(acc.overrides,
                       acc.rv.name \o <<".">> \o normalize_name(ApplyNormalizer(norm, param.name)),
                       param.name)
           ELSE acc.overrides,
         rv |-> [acc.rv EXCEPT !.attrs =
                   Append(@, TypeAttr(normalize_name(ApplyNormalizer(norm, param.name)),
                                      r.actual_type_name, param.required, r.default_value))] ]

\* the loop of infer_params_type from position i
RECURSIVE InferParams(_, _, _, _, _)
InferParams(params, norm, default, i, acc) ==
  IF i > Len(params) \/ acc.err # "none" THEN acc
  ELSE InferParams(params, norm, default, i + 1,
         ParamStep(acc, params[i], norm,
           recursive_resolve_schema(
             <<>>, EmptyMap, <<default.name, params[i].name>>,
             ApplyNormalizer(norm, default.name \o <<"_">> \o params[i].name),
             params[i].schema, norm, RecursionLimit)))

\* what infer_params_type returns after its loop ended as acc
InferredParams(acc) ==
  [ err |-> acc.err,
    type |-> [acc.rv EXCEPT !.overrides = acc.overrides],
    types |-> Append(acc.final_types, [acc.rv EXCEPT !.overrides = acc.overrides]) ]

infer_params_type(params, norm, default) ==
  IF params = <<>> THEN [err |-> "none", type |-> default, types |-> <<default>>]
  ELSE InferredParams(
         InferParams(params, norm, default, 1,
                     [err |-> "none", final_types |-> <<>>, overrides |-> default.overrides,
                      rv |-> default]))

\* the exception that leaves the loop body: that of the first step that raises
FirstError(errs) ==
  IF \A i \in 1..Len(errs) : errs[i] = "none" THEN "none"
  ELSE errs[CHOOSE i \in 1..Len(errs) :
              errs[i] # "none" /\ \A j \in 1..(i - 1) : errs[j] = "none"]

\* EndpointMethod, or the exception raised on the way to it
EndpointMethod(name, method, grouped, request, response, query, path_params, headers) ==
  [ err |-> FirstError(<<grouped.err, request.err, response.err, query.err,
                         path_params.err, headers.err>>),
    name |-> name,
    method |-> method,
    params |-> Params(grouped.containers),
    path_params_type |-> path_params.type,
    query_types |-> query.types,
    request_types |-> request.types,
    response_types |-> response.types,
    headers_types |-> headers.types,
    response_is_stream |-> response.is_stream ]

\* the loop body of iter_supported_methods after the parameters are grouped
DescribeMethod(common_types, common_responses, name, method, grouped) ==
  EndpointMethod(name, method, grouped,
    ProcessRequestBody(common_types, method),
    IF method.responses = <<>>
      THEN [err |-> "none", is_stream |-> FALSE, types |-> <<DEFAULT_RESPONSE_TYPE>>]
      ELSE ProcessResponses(common_types, common_responses,
                            method.responses[SupportedResponse(method.responses)][2]),
    infer_params_type(grouped.containers.query, "underscore", DEFAULT_QUERY_PARAMS_TYPE),
    infer_params_type(grouped.containers.path, "identity", DEFAULT_PATH_PARAMS_TYPE),
    infer_params_type(grouped.containers.header, "lower_underscore", DEFAULT_HEADERS_TYPE))

\* the loop body of iter_supported_methods for one method
ProcessMethod(common_types, common_params, common_responses, name, method) ==
  DescribeMethod(common_types, common_responses, name, method,
                 GroupParameters(common_params, method.parameters, 1,
                                 [err |-> "none", containers |-> PARAM_CONTAINERS]))

(***************************************************************************)
(* The path items the model describes                                      *)
(***************************************************************************)

n_petId == <<"p","e","t","I","d">>
n_limit == <<"l","i","m","i","t">>
n_limitParam == <<"l","i","m","i","t","P","a","r","a","m">>
n_missing == <<"m","i","s","s","i","n","g">>
n_class == <<"c","l","a","s","s">>
n_session == <<"s","e","s","s","i","o","n">>
n_XRequestID == <<"X","-","R","e","q","u","e","s","t","-","I","D">>
n_NotFound == <<"N","o","t","F","o","u","n","d">>
n_message == <<"m","e","s","s","a","g","e">>
n_Authorization == <<"A","u","t","h","o","r","i","z","a","t","i","o","n">>

\* spec.components.parameters
components_parameters ==
  n_limitParam :> OperationParameter(n_limit, "query", IntegerValue(None), FALSE)

\* spec.components.responses
components_responses ==
  n_NotFound :>
    Response(<< <<"JSON", MediaType(ObjectValue(<< <<n_message, StringValue(<<>>, None)>> >>,
                                                {n_message}))>> >>)

\* the common type a component schema Pet resolves to
PetType ==
  TypeContext(n_Pet,
    << TypeAttr(n_id, s_int, TRUE, None), TypeAttr(n_name, s_str, TRUE, None),
       TypeAttr(n_tag, s_str, FALSE, None) >>,
    FALSE, None, <<n_Pet>>)

\* the maps of common types: none, and Pet
CommonTypeMaps == {EmptyMap, n_Pet :> PetType}

\* the most content types of one request body
MaxContent == 3

\* the schema a content entry of each format declares: a different one for
\* each format
SchemaOfFormat ==
  [ JSON |-> StringValue(<<>>, None), ANYTHING |-> IntegerValue(None),
    FORM_URLENCODED |-> BooleanValue(None), XML |-> FloatValue(None),
    TEXT |-> ArrayValue(StringValue(<<>>, None)) ]

\* request content: entries of pairwise different formats in any order
RequestContents ==
  UNION { { [i \in 1..n |-> <<q[i], MediaType(SchemaOfFormat[q[i]])>>] :
              q \in { q \in [1..n -> DOMAIN SchemaOfFormat] :
                        \A i, j \in 1..n : i # j => q[i] # q[j] } }
          : n \in 1..MaxContent }
    \cup { <<>>,
           << <<"JSON", MediaType(SchemaRef(n_Pet))>> >>,
           << <<"XML", MediaType(NoSchema)>> >>,
           << <<"JSON", MediaType(ObjectValue(<< <<n_id, IntegerValue(None)>> >>, {n_id}))>> >>,
           << <<"JSON", MediaType(ProductSchemaType(<<SchemaRef(n_Pet), SchemaRef(n_Pet)>>))>> >>,
           << <<"JSON", MediaType(ArrayValue(
                 ObjectValue(<< <<n_id, IntegerValue(None)>> >>, {n_id})))>> >> }

ResponseTables ==
  { <<>>,
    << <<<<"2","0","0">>, Response(<< <<"JSON", MediaType(SchemaRef(n_Pet))>> >>)>> >>,
    << <<<<"4","0","4">>, Response(<<>>)>>,
       <<<<"2","0","0">>, Response(<< <<"JSON", MediaType(ArrayValue(SchemaRef(n_Pet)))>> >>)>> >>,
    << <<<<"d","e","f","a","u","l","t">>, Reference("responses", n_NotFound)>> >>,
    << <<<<"d","e","f","a","u","l","t">>, Reference("responses", n_missing)>> >>,
    << <<<<"2","0","1">>, Response(<< <<"EVENT_STREAM", MediaType(StringValue(<<>>, None))>> >>)>> >>,
    << <<<<"2","0","0">>, Response(<< <<"BINARY_STREAM", MediaType(NoSchema)>> >>)>> >>,
    << <<<<"2","0","0">>, Response(<< <<"XML", MediaType(StringValue(<<>>, None))>>,
                            <<"BINARY_STREAM", MediaType(IntegerValue(None))>> >>)>> >>,
    << <<<<"2","0","0">>, Response(<< <<"TEXT", MediaType(IntegerValue(None))>>,
                            <<"JSON", MediaType(NoSchema)>> >>)>> >>,
    << <<<<"2","0","0">>, Response(<< <<"JSON",
         MediaType(ProductSchemaType(<<SchemaRef(n_Pet), SchemaRef(n_Pet)>>))>> >>)>> >>,
    << <<<<"2","0","0">>, Response(<< <<"JSON",
         MediaType(ArrayValue(ObjectValue(<< <<n_name, StringValue(<<>>, None)>> >>, {})))>> >>)>> >> }

ParameterLists ==
  { <<>>,
    << OperationParameter(n_petId, "path", IntegerValue(None), TRUE) >>,
    << OperationParameter(n_limit, "query", IntegerValue(None), FALSE),
       OperationParameter(n_XRequestID, "header", StringValue(<<>>, None), TRUE) >>,
    << Reference("parameters", n_limitParam),
       OperationParameter(n_class, "query", StringValue(<<>>, None), FALSE) >>,
    << Reference("parameters", n_missing) >>,
    << OperationParameter(n_session, "cookie", StringValue(<<>>, None), FALSE) >>,
    << OperationParameter(n_pet, "query", SchemaRef(n_Pet), FALSE) >>,
    << OperationParameter(n_petId, "query", IntegerValue(None), TRUE) >>,
    << OperationParameter(n_kind, "path", StringValue(<<<<"o","n">>, <<"o","f","f">>>>, None), TRUE) >>,
    << OperationParameter(n_kind, "query", StringValue(<<<<"o","n">>, <<"o","f","f">>>>, None), FALSE),
       OperationParameter(n_tag, "header",
                          ObjectValue(<< <<n_id, IntegerValue(None)>> >>, {n_id}), FALSE) >>,
    << OperationParameter(n_Authorization, "header", StringValue(<<>>, None), TRUE) >> }

\* operations that differ in their request body, their responses, their
\* parameters
Operations ==
  { Operation(<<>>, Some(RequestBody(c)), <<>>) : c \in RequestContents }
    \cup { Operation(<<>>, None, r) : r \in ResponseTables }
    \cup { Operation(p, None, <<>>) : p \in ParameterLists }

\* the operations of the path items that have an options field
OptionsOperations ==
  { Operation(<<>>, None, <<>>),
    Operation(<< OperationParameter(n_limit, "query", IntegerValue(None), FALSE) >>, None, <<>>) }

\* a path item is the mapping from its operation fields that are not None
\* to their operations: items of one operation, and items of a get and a
\* delete
PathItems ==
  { "post" :> op : op \in Operations }
    \cup { ("get" :> Operation(p, None, r)) @@ ("delete" :> Operation(p, None, <<>>)) :
             <<p, r>> \in ParameterLists \X ResponseTables }
    \cup { "options" :> op : op \in OptionsOperations }
    \cup { ("get" :> op[1]) @@ ("options" :> op[2]) :
             op \in OptionsOperations \X OptionsOperations }

\* the parts path templates are made of: plain, placeholders, digit-leading,
\* dots, camel case, dashes, blank and empty
PathParts ==
  { <<"p","e","t">>, <<"{","p","e","t","I","d","}">>, <<"2","f","a">>, <<".",".">>, <<"{","}">>, <<"{","2","}">>, <<"p","e","t",".","j","s","o","n">>, <<"u","s","e","r","-","n","a","m","e">>, <<"A","B","T","e","s","t">>, <<" ">>, <<>>,
    <<"v","1">>, <<"{","p","e","t","-","I","d","}">>, <<" ","2","a">>, <<"{","p","e","t","I","d","}",".","j","s","o","n">> }

\* the most parts of a path template
MaxParts == 2

\* '/' followed by the parts with '/' between them
ApiPaths ==
  UNION { { <<"/">> \o Join(<<"/">>, q) : q \in [1..n -> PathParts] } : n \in 0..MaxParts }

PetPath == <<"/","p","e","t","/","{","p","e","t","I","d","}">>

\* a GET with the single required path parameter petId: integer
PetItem ==
  "get" :> Operation(<< OperationParameter(n_petId, "path", IntegerValue(None), TRUE) >>,
                     None, <<>>)

\* the endpoints of the model: every path item under the path of PetItem,
\* every path with PetItem
Endpoints ==
  (CommonTypeMaps \X {PetPath} \X PathItems) \cup ({EmptyMap} \X ApiPaths \X {PetItem})

(***************************************************************************)
(* State                                                                   *)
(***************************************************************************)

VARIABLES
  schemas,              \* components.schemas: the schema objects, as resolution leaves them
  input,                \* components.schemas as it was handed to resolve_schemas
  cursor,               \* position of the loop of resolve_schemas in schemas.items()
  resolved_types,       \* resolve_schemas: resolved_types
  common_schema_types,  \* resolve_schemas: common_schema_types
  ref_log,              \* the references resolved so far: key, resulting name, branch
  pc,                   \* where the run is
  error,                \* the exception that ended the run, "none" for none
  common_types,         \* SpecMeta.common_types
  types_py,             \* the definitions written to common/types.py, in order
  common_schema_types_, \* openapi_to_codegen_metadata: the common types by name
  path_item,            \* iter_supported_methods: the argument path
  method_cursor,        \* position of the generator in the fields of the path item
  supported_methods,    \* the descriptors the generator has yielded
  api_path,             \* openapi_to_codegen_metadata: the path of the path item
  pth,                  \* the key of the endpoint in SpecMeta.paths, once SpecMeta is returned
  args,                 \* gen: the parsed arguments name and force_overwrite
  root,                 \* gen: what the file system holds at layout.root
  root_before,          \* what it held when main was called
  layout_cursor,        \* generate_from_layout: how far it has come
  out_channel,          \* gen: what main wrote to out_channel
  stderr                \* what was written to sys.stderr

\* what iter_supported_methods works on
endpoint_vars == <<path_item, method_cursor, supported_methods, api_path, pth>>

\* what resolve_schemas and _generate_common_types work on
schema_vars ==
  <<schemas, input, cursor, resolved_types, common_schema_types, ref_log, common_types, types_py>>

\* what the gen command works on
gen_vars == <<args, root, root_before, layout_cursor, out_channel, stderr>>

vars == <<schema_vars, endpoint_vars, common_schema_types_, pc, error, gen_vars>>

\* nothing at a path
NoPath == [kind |-> "absent", files |-> {}]

\* the gen command is not run
NoGen ==
  /\ args = [name |-> <<>>, force_overwrite |-> FALSE]
  /\ root = NoPath
  /\ root_before = NoPath
  /\ layout_cursor = 1
  /\ out_channel = <<>>
  /\ stderr = <<>>

\* a path item without operations
NoPathItem == [f \in {} |-> f]

(***************************************************************************)
(* resolve_schemas                                                         *)
(***************************************************************************)

Init ==
  /\ input \in SchemaInputs
  /\ schemas = input
  /\ cursor = 1
  /\ resolved_types = <<>>
  /\ common_schema_types = EmptyMap
  /\ ref_log = <<>>
  /\ pc = "resolve_schemas"
  /\ error = "none"
  /\ common_types = <<>>
  /\ types_py = <<>>
  /\ common_schema_types_ = EmptyMap
  /\ path_item = NoPathItem
  /\ method_cursor = 1
  /\ supported_methods = <<>>
  /\ api_path = <<>>
  /\ pth = None
  /\ NoGen

\* the resolver call of one pass of the loop
ResolveComponent ==
  recursive_resolve_schema(schemas, common_schema_types, <<schemas[cursor].name>>,
                           schemas[cursor].name, schemas[cursor].schema,
                           "underscore", RecursionLimit)

\* the rest of a pass of the loop, r being what the resolver returned
Resolved(type_name, r, typ) ==
  /\ r.err = "none"
  /\ resolved_types' = IF r.final_types # <<>>
                       THEN resolved_types \o r.final_types
                       ELSE Append(resolved_types, typ)
  /\ common_schema_types' =
       MapSet(common_schema_types, camelized_python_name(type_name),
              IF r.final_types # <<>> THEN r.final_types[Len(r.final_types)] ELSE typ)
  /\ schemas' = r.registry
  /\ ref_log' = ref_log \o r.refs

\* the alias a pass of the loop makes when the resolver returned no definition
AliasType(type_name, py_name) ==
  TypeContext(camelized_python_name(type_name), <<>>, FALSE, Some(py_name), <<type_name>>)

\* the resolver raising r.err
Raising(r) ==
  /\ r.err # "none"
  /\ error' = r.err
  /\ schemas' = r.registry

\* one pass of the loop of resolve_schemas that returns from the resolver
ResolveSchema ==
  /\ pc = "resolve_schemas"
  /\ cursor <= Len(schemas)
  /\ Resolved(schemas[cursor].name, ResolveComponent,
              AliasType(schemas[cursor].name, ResolveComponent.actual_type_name))
  /\ cursor' = cursor + 1
  /\ UNCHANGED <<input, pc, error, common_types, types_py, common_schema_types_, endpoint_vars, gen_vars>>

\* a pass of the loop in which the resolver raises: the exception leaves
\* resolve_schemas
ResolveSchemaRaises ==
  /\ pc = "resolve_schemas"
  /\ cursor <= Len(schemas)
  /\ Raising(ResolveComponent)
  /\ pc' = "failed"
  /\ UNCHANGED <<input, cursor, resolved_types, common_schema_types, ref_log,
                 common_types, types_py, common_schema_types_, endpoint_vars, gen_vars>>

\* return resolved_types
ReturnResolvedTypes ==
  /\ pc = "resolve_schemas"
  /\ cursor > Len(schemas)
  /\ pc' = "resolved"
  /\ UNCHANGED <<schemas, input, cursor, resolved_types, common_schema_types, ref_log,
                 error, common_types, types_py, common_schema_types_, endpoint_vars, gen_vars>>

\* pvector(x._replace(name=camelized_python_name(x.name)) for x in ...)
Camelized(types) ==
  [i \in 1..Len(types) |-> [types[i] EXCEPT !.name = camelized_python_name(@)]]

\* pmap((x.name, x) for x in types): the last type of a name is the one kept
TypesByName(types) ==
  [n \in {types[i].name : i \in 1..Len(types)} |->
     types[CHOOSE i \in 1..Len(types) :
             /\ types[i].name = n
             /\ \A j \in (i + 1)..Len(types) : types[j].name # n]]

\* openapi_to_codegen_metadata: the names of the common types are camelized
\* once more and the types are put in a map by name
CamelizeCommonTypes ==
  /\ pc = "resolved"
  /\ common_types' = Camelized(resolved_types)
  /\ common_schema_types_' = TypesByName(Camelized(resolved_types))
  /\ pc' = "metadata"
  /\ UNCHANGED <<schemas, input, cursor, resolved_types, common_schema_types, ref_log,
                 error, types_py, endpoint_vars, gen_vars>>

\* the fields Python compares two TypeContext by
TypeFields(t) ==
  [ name |-> t.name, attrs |-> t.attrs, is_enum |-> t.is_enum,
    common_reference_as |-> t.common_reference_as, overrides |-> t.overrides ]

\* what render_type_context takes of a type: its fields and ordered_attrs
Rendered(t) ==
  [ name |-> t.name, is_enum |-> t.is_enum, common_reference_as |-> t.common_reference_as,
    attrs |-> t.attrs, ordered_attrs |-> ordered_attrs(t) ]

\* the loop of _generate_common_types: a type equal to one already written
\* is skipped
RECURSIVE WriteTypes(_, _, _)
WriteTypes(types, processed, out) ==
  IF types = <<>> THEN out
  ELSE IF TypeFields(types[1]) \in processed
       THEN WriteTypes(Tail(types), processed, out)
  ELSE WriteTypes(Tail(types), processed \cup {TypeFields(types[1])},
                  Append(out, Rendered(types[1])))

\* _generate_common_types
GenerateCommonTypes ==
  /\ pc = "metadata"
  /\ types_py' = WriteTypes(common_types, {}, <<>>)
  /\ pc' = "generated"
  /\ UNCHANGED <<schemas, input, cursor, resolved_types, common_schema_types, ref_log,
                 error, common_types, common_schema_types_, endpoint_vars, gen_vars>>

Next ==
  \/ ResolveSchema
  \/ ResolveSchemaRaises
  \/ ReturnResolvedTypes
  \/ CamelizeCommonTypes
  \/ GenerateCommonTypes

Spec == Init /\ [][Next]_vars

(***************************************************************************)
(* iter_supported_methods                                                  *)
(***************************************************************************)

InitEndpoint ==
  /\ schemas = <<>>
  /\ input = <<>>
  /\ cursor = 1
  /\ resolved_types = <<>>
  /\ common_schema_types = EmptyMap
  /\ ref_log = <<>>
  /\ common_types = <<>>
  /\ types_py = <<>>
  /\ \E e \in Endpoints :
       /\ common_schema_types_ = e[1]
       /\ api_path = e[2]
       /\ path_item = e[3]
  /\ method_cursor = 1
  /\ supported_methods = <<>>
  /\ pth = None
  /\ pc = "openapi_to_codegen_metadata"
  /\ error = "none"
  /\ NoGen

\* the loop over spec.paths for the one path and the return of SpecMeta, f
\* being what api_path_to_filepath returned: the generator of the endpoint
\* is made and not run
Returns(f) ==
  /\ f.err = "none"
  /\ pth' = Some(f.segments)

\* api_path_to_filepath raises
PathRaises(f) ==
  /\ f.err # "none"
  /\ error' = f.err

\* openapi_to_codegen_metadata returns SpecMeta; its caller then runs the
\* generator
MetadataReturns ==
  /\ pc = "openapi_to_codegen_metadata"
  /\ Returns(api_path_to_filepath(api_path))
  /\ pc' = "iter_supported_methods"
  /\ UNCHANGED <<gen_vars, schema_vars, common_schema_types_, path_item, method_cursor,
                 supported_methods, api_path, error>>

\* openapi_to_codegen_metadata raises
MetadataRaises ==
  /\ pc = "openapi_to_codegen_metadata"
  /\ PathRaises(api_path_to_filepath(api_path))
  /\ pc' = "failed"
  /\ UNCHANGED <<schema_vars, common_schema_types_, endpoint_vars, gen_vars>>

\* met in methods: the operation equals that of a field of methods
InMethods(met) ==
  \E i \in 1..Len(PathItemMethods) :
    /\ PathItemMethods[i] \in DOMAIN path_item
    /\ path_item[PathItemMethods[i]] = met

\* the position in PathItemFields of the next method the generator takes,
\* 0 when there is none: a field counts when its operation is not None and
\* is in methods
NextMethod ==
  LET rest == {i \in method_cursor..Len(PathItemFields) :
                 /\ PathItemFields[i] \in DOMAIN path_item
                 /\ InMethods(path_item[PathItemFields[i]])}
  IN  IF rest = {} THEN 0 ELSE CHOOSE i \in rest : \A j \in rest : i <= j

\* the loop body for the method at position i of PathItemFields
ProcessNext(i) ==
  ProcessMethod(common_schema_types_, components_parameters, components_responses,
                PathItemFields[i], path_item[PathItemFields[i]])

\* yield EndpointMethod(...)
Yields(d) ==
  /\ d.err = "none"
  /\ supported_methods' = Append(supported_methods, [f \in DOMAIN d \ {"err"} |-> d[f]])

\* an exception leaves the generator
Raises(d) ==
  /\ d.err # "none"
  /\ error' = d.err

\* the generator runs to its next yield
YieldEndpointMethod ==
  /\ pc = "iter_supported_methods"
  /\ NextMethod # 0
  /\ Yields(ProcessNext(NextMethod))
  /\ method_cursor' = NextMethod + 1
  /\ UNCHANGED <<gen_vars, schema_vars, common_schema_types_, path_item, api_path, pth, pc, error>>

\* the loop body raises
MethodRaises ==
  /\ pc = "iter_supported_methods"
  /\ NextMethod # 0
  /\ Raises(ProcessNext(NextMethod))
  /\ pc' = "failed"
  /\ UNCHANGED <<schema_vars, common_schema_types_, endpoint_vars, gen_vars>>

\* no method is left: the generator returns
MethodsExhausted ==
  /\ pc = "iter_supported_methods"
  /\ NextMethod = 0
  /\ pc' = "exhausted"
  /\ UNCHANGED <<gen_vars, schema_vars, common_schema_types_, endpoint_vars, error>>

NextEndpoint ==
  \/ MetadataReturns
  \/ MetadataRaises
  \/ YieldEndpointMethod
  \/ MethodRaises
  \/ MethodsExhausted

SpecEndpoint == InitEndpoint /\ [][NextEndpoint]_vars

(***************************************************************************)
(* The gen command                                                         *)
(***************************************************************************)

\* the names of the client: args.name
ClientNames == {<<"t","e","s","t","_","c","l","i","e","n","t">>, <<"P","e","t","S","t","o","r","e">>}

\* the files a directory at args.out_dir may hold before the run, each a
\* path below the directory
OldFiles == {<<<<"R","E","A","D","M","E",".","m","d">>>>, <<<<"n","o","t","e","s",".","t","x","t">>>>, <<<<"t","e","s","t","_","c","l","i","e","n","t">>, <<"_","_","i","n","i","t","_","_",".","p","y">>>>}

\* what may be at args.out_dir before the run: nothing, a regular file, a
\* directory of some of OldFiles (of none: an empty directory); a file
\* below the root is its path and who wrote it
Roots ==
  { NoPath, [kind |-> "file", files |-> {}] }
    \cup { [kind |-> "dir", files |-> {[path |-> q, by |-> "before"] : q \in ps}]
           : ps \in SUBSET OldFiles }

\* is_empty_dir
is_empty_dir(r) == r.kind = "dir" /\ r.files = {}

\* Path.exists() of the path below the root r; a directory is there when a
\* file is below it
Exists(r, path) ==
  IF path = <<>> THEN r.kind # "absent"
  ELSE /\ r.kind = "dir"
       /\ \E f \in r.files :
            Len(f.path) >= Len(path) /\ SubSeq(f.path, 1, Len(path)) = path

\* the files generate_from_layout makes with _generate_file first: readme,
\* manifest, setup_py, requirements, and __init__.py of the client root
Bindings(py_name) ==
  << <<<<"R","E","A","D","M","E",".","m","d">>>>, <<<<"M","A","N","I","F","E","S","T",".","i","n">>>>, <<<<"s","e","t","u","p",".","p","y">>>>, <<<<"r","e","q","u","i","r","e","m","e","n","t","s">>, <<"m","i","n","i","m","a","l",".","t","x","t">>>>,
     <<py_name, <<"_","_","i","n","i","t","_","_",".","p","y">>>> >>

\* _generate_file: the parent directory is made when it is not there, then
\* binding.layout.touch(exist_ok=False) and the write; below a regular file
\* neither can be done
_generate_file(r, path) ==
  IF r.kind = "file" THEN [err |-> "NotADirectoryError", root |-> r]
  ELSE IF Exists(r, path) THEN [err |-> "FileExistsError", root |-> r]
  ELSE [err |-> "none",
        root |-> [kind |-> "dir",
                  files |-> r.files \cup {[path |-> path, by |-> "generated"]}]]

InitGen ==
  /\ schemas = <<>>
  /\ input = <<>>
  /\ cursor = 1
  /\ resolved_types = <<>>
  /\ common_schema_types = EmptyMap
  /\ ref_log = <<>>
  /\ common_types = <<>>
  /\ types_py = <<>>
  /\ common_schema_types_ = EmptyMap
  /\ path_item = NoPathItem
  /\ method_cursor = 1
  /\ supported_methods = <<>>
  /\ api_path = <<>>
  /\ pth = None
  /\ args \in [name : ClientNames, force_overwrite : BOOLEAN]
  /\ root \in Roots
  /\ root_before = root
  /\ layout_cursor = 1
  /\ out_channel = <<>>
  /\ stderr = <<>>
  /\ pc = "main"
  /\ error = "none"

\* _overwrite_if_allowed_and_required without the flag: can_proceed is
\* False and main returns
Refuse ==
  /\ pc = "main"
  /\ root.kind # "absent" /\ ~is_empty_dir(root)
  /\ ~args.force_overwrite
  /\ stderr' = Append(stderr, "Filepath already exists and is not empty")
  /\ pc' = "returned"
  /\ UNCHANGED <<schema_vars, endpoint_vars, common_schema_types_, error,
                 args, root, root_before, layout_cursor, out_channel>>

\* _overwrite_if_allowed_and_required with the flag: unlink() calls rmtree
\* for a directory; for anything else the lambda evaluates to the bound
\* method root.unlink, which is not called
Overwrite ==
  /\ pc = "main"
  /\ root.kind # "absent" /\ ~is_empty_dir(root)
  /\ args.force_overwrite
  /\ root' = IF root.kind = "dir" THEN NoPath ELSE root
  /\ pc' = "generate_from_layout"
  /\ UNCHANGED <<schema_vars, endpoint_vars, common_schema_types_, error,
                 args, root_before, layout_cursor, out_channel, stderr>>

\* _overwrite_if_allowed_and_required for a root that is not there or is an
\* empty directory
Proceed ==
  /\ pc = "main"
  /\ ~(root.kind # "absent" /\ ~is_empty_dir(root))
  /\ pc' = "generate_from_layout"
  /\ UNCHANGED <<schema_vars, endpoint_vars, common_schema_types_, error, gen_vars>>

\* generate_from_layout: the next _generate_file
GenerateFile ==
  /\ pc = "generate_from_layout"
  /\ layout_cursor <= Len(Bindings(underscore(args.name)))
  /\ _generate_file(root, Bindings(underscore(args.name))[layout_cursor]).err = "none"
  /\ root' = _generate_file(root, Bindings(underscore(args.name))[layout_cursor]).root
  /\ layout_cursor' = layout_cursor + 1
  /\ UNCHANGED <<schema_vars, endpoint_vars, common_schema_types_, pc, error,
                 args, root_before, out_channel, stderr>>

\* generate_from_layout: the next _generate_file raises, and main with it
GenerateFileRaises ==
  /\ pc = "generate_from_layout"
  /\ layout_cursor <= Len(Bindings(underscore(args.name)))
  /\ _generate_file(root, Bindings(underscore(args.name))[layout_cursor]).err # "none"
  /\ error' = _generate_file(root, Bindings(underscore(args.name))[layout_cursor]).err
  /\ pc' = "failed"
  /\ UNCHANGED <<schema_vars, endpoint_vars, common_schema_types_, gen_vars>>

\* generate_from_layout after the bindings: the library, the types, the
\* endpoints, the imports, py.typed and the code style
GenerateLibrary ==
  /\ pc = "generate_from_layout"
  /\ layout_cursor = Len(Bindings(underscore(args.name))) + 1
  /\ root' = [root EXCEPT !.files =
                @ \cup { [path |-> <<underscore(args.name)>> \o q, by |-> "generated"]
                         : q \in { <<<<"c","o","m","m","o","n">>, <<"_","_","i","n","i","t","_","_",".","p","y">>>>, <<<<"c","o","m","m","o","n">>, <<"t","y","p","e","s",".","p","y">>>>,
                                   <<<<"s","e","r","v","i","c","e">>, <<"_","_","i","n","i","t","_","_",".","p","y">>>>, <<<<"p","y",".","t","y","p","e","d">>>> } }]
  /\ layout_cursor' = layout_cursor + 1
  /\ UNCHANGED <<schema_vars, endpoint_vars, common_schema_types_, pc, error,
                 args, root_before, out_channel, stderr>>

\* out_channel.write('Done.\n')
WriteDone ==
  /\ pc = "generate_from_layout"
  /\ layout_cursor = Len(Bindings(underscore(args.name))) + 2
  /\ out_channel' = Append(out_channel, "Done.")
  /\ pc' = "done"
  /\ UNCHANGED <<schema_vars, endpoint_vars, common_schema_types_, error,
                 args, root, root_before, layout_cursor, stderr>>

NextGen ==
  \/ Refuse
  \/ Overwrite
  \/ Proceed
  \/ GenerateFile
  \/ GenerateFileRaises
  \/ GenerateLibrary
  \/ WriteDone

SpecGen == InitGen /\ [][NextGen]_vars

(***************************************************************************)
(* Properties of resolve_schemas                                           *)
(***************************************************************************)

Returned == pc \in {"resolved", "metadata", "generated"}

\* C1: within one run of resolve_schemas every reference to a given
\* component schema resolves to the same type name, whichever branch of
\* _process_reference resolves it and whatever the shape of the target.
C1_ReferenceSameName ==
  \A i, j \in 1..Len(ref_log) :
    ref_log[i].key = ref_log[j].key => ref_log[i].name = ref_log[j].name

\* C2: the definition list resolve_schemas returns holds no two entries of
\* the same name.
C2_NoDuplicateNames ==
  pc = "resolved" =>
    \A i, j \in 1..Len(resolved_types) :
      i # j => resolved_types[i].name # resolved_types[j].name

\* the names of the component schemas a schema refers to
RECURSIVE RefNames(_)
RefNames(schema) ==
  CASE schema.kind = "ref" -> {camelized_python_name(schema.name)}
    [] schema.kind \in {"object", "inlined_object"} ->
         UNION {RefNames(schema.properties[i][2]) : i \in 1..Len(schema.properties)}
    [] schema.kind = "array" -> RefNames(schema.items)
    [] schema.kind = "allOf" -> UNION {RefNames(schema.all_of[i]) : i \in 1..Len(schema.all_of)}
    [] schema.kind \in {"anyOf", "oneOf"} ->
         UNION {RefNames(schema.items[i]) : i \in 1..Len(schema.items)}
    [] OTHER -> {}

DeclaredKeys(q) == {camelized_python_name(q[i].name) : i \in 1..Len(q)}

AllReferencesDeclared(q) ==
  \A i \in 1..Len(q) : RefNames(q[i].schema) \subseteq DeclaredKeys(q)

\* the keys reached from the keys of S along at most n references
RECURSIVE ReachedFrom(_, _, _)
ReachedFrom(q, S, n) ==
  IF n = 0 THEN S
  ELSE ReachedFrom(q,
         S \cup UNION {RefNames(q[i].schema) :
                         i \in {k \in 1..Len(q) : camelized_python_name(q[k].name) \in S}},
         n - 1)

HasReferenceCycle(q) ==
  \E i \in 1..Len(q) :
    camelized_python_name(q[i].name) \in ReachedFrom(q, RefNames(q[i].schema), Len(q))

\* C3: when the declared schemas refer to each other in a cycle the resolver
\* does not return, and the failure it stops with is ReferenceCycle.
C3_CycleReported ==
  (HasReferenceCycle(input) /\ AllReferencesDeclared(input)) =>
     /\ ~Returned
     /\ pc = "failed" => error = "ReferenceCycle"

IsIdentChar(c) == IsUpper(c) \/ IsLower(c) \/ IsDigit(c) \/ c = "_"

\* the identifiers of a type expression, cur being the identifier under way
RECURSIVE Identifiers(_, _)
Identifiers(s, cur) ==
  IF s = <<>> THEN (IF cur = <<>> THEN {} ELSE {cur})
  ELSE IF IsIdentChar(s[1]) THEN Identifiers(Tail(s), Append(cur, s[1]))
  ELSE (IF cur = <<>> THEN {} ELSE {cur}) \cup Identifiers(Tail(s), <<>>)

BuiltinTypeNames == {s_int, s_str, s_float, s_bool, s_Any, s_Sequence, s_Union, s_Mapping, s_None}

\* the named (non-primitive) types of a datatype
NamedTypes(datatype) == Identifiers(datatype, <<>>) \ BuiltinTypeNames

\* C4: in the list resolve_schemas returns, every named type in the datatype
\* of an attribute of the definition at index i is defined at an index j < i.
C4_DependenciesPrecede ==
  pc = "resolved" =>
    \A i \in 1..Len(resolved_types) :
      \A k \in 1..Len(resolved_types[i].attrs) :
        \A n \in NamedTypes(resolved_types[i].attrs[k].datatype) :
          \E j \in 1..(i - 1) : resolved_types[j].name = n

\* the object schemas an allOf component of the input refers to, in order
MemberObjects(c) ==
  [m \in 1..Len(c.schema.all_of) |->
     input[RegistryIndex(input, camelized_python_name(c.schema.all_of[m].name))].schema]

PropertyNames(obj) == {obj.properties[i][1] : i \in 1..Len(obj.properties)}

\* the schema that the right-most member declaring property k gives it
RightMostSchema(members, k) ==
  LET m == CHOOSE m \in 1..Len(members) :
             /\ k \in PropertyNames(members[m])
             /\ \A n \in (m + 1)..Len(members) : k \notin PropertyNames(members[n])
  IN  members[m].properties[PropertyIndex(members[m].properties, k)][2]

PrimitiveTypeName(schema) ==
  CASE schema.kind = "string" -> s_str
    [] schema.kind = "integer" -> s_int
    [] schema.kind = "float" -> s_float
    [] schema.kind = "boolean" -> s_bool

AttrNameOf(k) == normalize_name(underscore(k))

\* C5: for A{x, y} and B{y, z}, allOf [A, B] resolves to one object definition
\* whose attribute set is exactly {x, y, z} and whose y has the type B
\* declares: the attributes are the union of the members' properties, each
\* with the type the right-most member gives it.
C5_AllOfMergeLaw ==
  \A i \in 1..Len(resolved_types) :
    \A c \in {input[n] : n \in 1..Len(input)} :
      (c.schema.kind = "allOf" /\ resolved_types[i].site = <<c.name>>) =>
        LET t == resolved_types[i]
            members == MemberObjects(c)
            keys == UNION {PropertyNames(members[m]) : m \in 1..Len(members)}
        IN  /\ ~t.is_enum
            /\ Len(t.attrs) = Cardinality(keys)
            /\ {t.attrs[k].name : k \in 1..Len(t.attrs)} = {AttrNameOf(k) : k \in keys}
            /\ \A k \in keys :
                 \A a \in 1..Len(t.attrs) :
                   t.attrs[a].name = AttrNameOf(k) =>
                     t.attrs[a].datatype = PrimitiveTypeName(RightMostSchema(members, k))

\* the allOf C of A{x, y} and B{y, z} has been resolved to a definition
C5_Witness ==
  /\ pc = "resolved"
  /\ \E i \in 1..Len(resolved_types) :
       /\ resolved_types[i].site = <<n_C>>
       /\ {resolved_types[i].attrs[k].name : k \in 1..Len(resolved_types[i].attrs)}
            = {n_x, n_y, n_z}

\* C6: an enum of N pairwise different literals resolves to N pairwise
\* different member identifiers, the empty literal to EMPTY.
C6_EnumMembersDistinct ==
  \A i \in 1..Len(resolved_types) :
    resolved_types[i].is_enum =>
      LET attrs == resolved_types[i].attrs
      IN  /\ \A a, b \in 1..Len(attrs) : a # b => attrs[a].name # attrs[b].name
          /\ \A a \in 1..Len(attrs) :
               attrs[a].default = Some(<<"'", "'">>) => attrs[a].name = EMPTY_NAME

\* C7: resolving leaves the input schema graph unchanged.
C7_InputUnchanged == schemas = input

\* C8: two different schemas never get the same type name, be the name
\* generated (inline object, inline enum, array items, union variant) or
\* that of a declared component.
C8_GeneratedNamesUnique ==
  \A i, j \in 1..Len(resolved_types) :
    resolved_types[i].name = resolved_types[j].name
      => resolved_types[i].site = resolved_types[j].site

RequiredFirst(oa) ==
  \A i, j \in 1..Len(oa) : (i < j /\ oa[j].is_required) => oa[i].is_required

\* C9 as amended: in ordered_attrs the required attributes come before the
\* optional ones, and attributes of the same required flag come in
\* descending lexicographic order of their names.
C9_RequiredFirstNamesDescending ==
  \A n \in 1..Len(types_py) :
    ~types_py[n].is_enum =>
      LET oa == types_py[n].ordered_attrs
      IN  /\ RequiredFirst(oa)
          /\ \A i, j \in 1..Len(oa) :
               (i < j /\ oa[i].is_required = oa[j].is_required)
                 => ~StrLess(oa[i].name, oa[j].name)

\* C9 as claimed: required before optional, and attributes of the same
\* required flag in ascending lexicographic order of their names.
C9_RequiredFirstNamesAscending ==
  \A n \in 1..Len(types_py) :
    ~types_py[n].is_enum =>
      LET oa == types_py[n].ordered_attrs
      IN  /\ RequiredFirst(oa)
          /\ \A i, j \in 1..Len(oa) :
               (i < j /\ oa[i].is_required = oa[j].is_required)
                 => ~StrLess(oa[j].name, oa[i].name)

\* an object type written with two required attributes of different names
\* and an optional one
C9_Witness ==
  \E n \in 1..Len(types_py) :
    LET oa == types_py[n].ordered_attrs
    IN  /\ ~types_py[n].is_enum
        /\ \E i, j, k \in 1..Len(oa) :
             /\ oa[i].is_required /\ oa[j].is_required /\ ~oa[k].is_required
             /\ oa[i].name # oa[j].name

(***************************************************************************)
(* Properties of iter_supported_methods                                    *)
(***************************************************************************)

\* the schema of the first entry of content of format fmt
SchemaOf(content, fmt) ==
  content[CHOOSE i \in 1..Len(content) :
            content[i][1] = fmt /\ \A j \in 1..(i - 1) : content[j][1] # fmt][2].schema

Declares(content, fmt) == \E i \in 1..Len(content) : content[i][1] = fmt

\* the schema chosen by preference: JSON, else wildcard, else form-urlencoded,
\* else the last entry
PreferredSchema(content) ==
  IF Declares(content, "JSON") THEN SchemaOf(content, "JSON")
  ELSE IF Declares(content, "ANYTHING") THEN SchemaOf(content, "ANYTHING")
  ELSE IF Declares(content, "FORM_URLENCODED") THEN SchemaOf(content, "FORM_URLENCODED")
  ELSE content[Len(content)][2].schema

\* C10: the request types of every descriptor are those of the schema of the
\* JSON entry of the request body if one is declared, else of the wildcard
\* entry, else of the form-urlencoded entry, else of the last declared entry,
\* whatever the order of the entries.
C10_RequestSchemaByPreference ==
  \A k \in 1..Len(supported_methods) :
    LET d == supported_methods[k]
    IN  (d.method.request_body.some /\ d.method.request_body.val.content # <<>>) =>
          d.request_types =
            RequestTypesOf(common_schema_types_,
                           PreferredSchema(d.method.request_body.val.content)).types

\* the response object behind an entry of responses: the entry itself, or the
\* target of a reference in the table of common responses
Dereferenced(response) ==
  IF response.kind = "ref" THEN components_responses[response.name] ELSE response

\* the response of a descriptor's operation that the code takes as the
\* representative one
Representative(d) ==
  Dereferenced(d.method.responses[SupportedResponse(d.method.responses)][2])

\* C11: the streaming flag of a descriptor is true exactly when the content
\* entry chosen for the representative response is of an event-stream or a
\* binary-stream format, the fall-back to the last entry included; it is
\* false for any other format and for a response without content.
C11_StreamFlagOfChosenEntry ==
  \A k \in 1..Len(supported_methods) :
    LET d == supported_methods[k]
    IN  d.response_is_stream =
          /\ d.method.responses # <<>>
          /\ Representative(d).content # <<>>
          /\ Representative(d).content[ResponseEntry(Representative(d).content).at][1]
               \in {"EVENT_STREAM", "BINARY_STREAM"}

\* the response declared under status 200, the first declared one if there
\* is none
DeclaredRepresentative(responses) ==
  IF \E i \in 1..Len(responses) : responses[i][1] = <<"2","0","0">>
  THEN responses[CHOOSE i \in 1..Len(responses) : responses[i][1] = <<"2","0","0">>][2]
  ELSE responses[1][2]

\* C12: the response types and the streaming flag of every descriptor are
\* those of the response declared under status 200, wherever it stands among
\* the statuses, and of the first declared response when 200 is not declared.
C12_RepresentativeResponse ==
  \A k \in 1..Len(supported_methods) :
    LET d == supported_methods[k]
    IN  d.method.responses # <<>> =>
          /\ d.response_types =
               ProcessResponses(common_schema_types_, components_responses,
                                DeclaredRepresentative(d.method.responses)).types
          /\ d.response_is_stream =
               ProcessResponses(common_schema_types_, components_responses,
                                DeclaredRepresentative(d.method.responses)).is_stream

\* a descriptor of an operation that declares status 200 behind another status
C12_Witness ==
  \E k \in 1..Len(supported_methods) :
    LET responses == supported_methods[k].method.responses
    IN  /\ Len(responses) >= 2
        /\ responses[1][1] # <<"2","0","0">>
        /\ \E i \in 2..Len(responses) : responses[i][1] = <<"2","0","0">>

\* types is definitions followed by one alias without attributes from the
\* local name to the resolved name r_name when r_name is not the local name,
\* and definitions alone, no alias among them, when it is
AliasLaw(types, definitions, r_name, local) ==
  IF r_name # local
  THEN /\ Len(types) = Len(definitions) + 1
       /\ SubSeq(types, 1, Len(definitions)) = definitions
       /\ types[Len(types)].name = r_name
       /\ types[Len(types)].attrs = <<>>
       /\ types[Len(types)].common_reference_as = Some(local)
       /\ \A i \in 1..Len(definitions) : definitions[i].common_reference_as = None
  ELSE /\ types = definitions
       /\ \A i \in 1..Len(types) : types[i].common_reference_as = None

\* AliasLaw for what the resolver returned as r
AliasLawOf(types, r, local) == AliasLaw(types, r.final_types, r.actual_type_name, local)

\* the request schema the code takes of a descriptor's operation
TakenRequestSchema(d) == RequestSchema(d.method.request_body.val.content)

\* the schema of the content entry the code takes of a response
TakenResponseSchema(response) ==
  response.content[ResponseEntry(response.content).at][2].schema

\* C13: when the request (response) body resolves to a name other than
\* Request (Response), request_types (response_types) is the resolved
\* definitions followed by exactly one alias without attributes from the
\* local name to the resolved name; when it resolves to Request (Response)
\* there is no alias.
C13_AliasOfResolvedName ==
  \A k \in 1..Len(supported_methods) :
    LET d == supported_methods[k]
    IN  /\ (d.method.request_body.some /\ d.method.request_body.val.content # <<>>) =>
             AliasLawOf(d.request_types,
                        recursive_resolve_schema(<<>>, common_schema_types_, <<s_Request>>,
                                                 s_Request, TakenRequestSchema(d),
                                                 "underscore", RecursionLimit),
                        s_Request)
        /\ (/\ d.method.responses # <<>>
            /\ Representative(d).content # <<>>
            /\ TakenResponseSchema(Representative(d)) # NoSchema) =>
             AliasLawOf(d.response_types,
                        recursive_resolve_schema(<<>>, common_schema_types_, <<s_Response>>,
                                                 s_Response,
                                                 TakenResponseSchema(Representative(d)),
                                                 "underscore", RecursionLimit),
                        s_Response)

\* a descriptor whose request body resolved to a name other than Request and
\* whose request_types end with the alias
C13_Witness ==
  \E k \in 1..Len(supported_methods) :
    LET d == supported_methods[k]
    IN  /\ d.method.request_body.some
        /\ d.request_types # <<>>
        /\ d.request_types[Len(d.request_types)].common_reference_as = Some(s_Request)
        /\ d.request_types[Len(d.request_types)].name # s_Request

(***************************************************************************)
(* Properties of the resolver and of the path functions                    *)
(***************************************************************************)

\* the component the loop of resolve_schemas is at is a union that resolves
UnionAtCursor ==
  /\ pc = "resolve_schemas"
  /\ cursor <= Len(schemas)
  /\ schemas[cursor].schema.kind \in {"oneOf", "anyOf"}
  /\ ResolveComponent.err = "none"

\* the name the n-th variant of a union named X goes by
VariantName(X, n) == camelized_python_name(X) \o <<"V","a","r">> \o <<digits[n + 1]>>

\* the n-th variant of the union at the cursor, resolved on its own under
\* its variant name
VariantAtCursor(n) ==
  recursive_resolve_schema(schemas, common_schema_types,
                           <<schemas[cursor].name, <<"v","a","r">> \o <<digits[n + 1]>> >>,
                           VariantName(schemas[cursor].name, n),
                           schemas[cursor].schema.items[n], "underscore", RecursionLimit)

RECURSIVE Concatenated(_)
Concatenated(seqs) == IF seqs = <<>> THEN <<>> ELSE seqs[1] \o Concatenated(Tail(seqs))

\* C14: a union of k variants named X resolves to Union[...] over exactly
\* the k type names of its variants in declaration order, the n-th variant
\* resolved under the name XVarn (X in its camelized form), and the
\* definitions returned are those of the variants, in order.
C14_UnionOfVariants ==
  UnionAtCursor =>
    LET k == Len(schemas[cursor].schema.items)
    IN  /\ ResolveComponent.actual_type_name =
             <<"U","n","i","o","n","[">> \o Join(<<","," ">>, [n \in 1..k |-> VariantAtCursor(n).actual_type_name])
                      \o <<"]">>
        /\ ResolveComponent.final_types =
             Concatenated([n \in 1..k |-> VariantAtCursor(n).final_types])

\* the union X of a string and an object has been resolved: the object
\* variant is defined as XVar2 and it is the only definition
C14_Witness ==
  /\ cursor > 1
  /\ schemas[1].name = n_X
  /\ Len(resolved_types) >= 1
  /\ resolved_types[1].name = <<"X","V","a","r","2">>
  /\ \A i \in 1..Len(resolved_types) : resolved_types[i].name # <<"X","V","a","r","1">>

\* the descriptors of GET /pet/{petId} are all yielded
PetEndpointDescribed ==
  /\ api_path = PetPath
  /\ path_item = PetItem
  /\ pc = "exhausted"

\* one descriptor, the segments pet and {petId}, and a path-params type of
\* the one required attribute petId: int
PetDescriptor ==
  /\ Len(supported_methods) = 1
  /\ supported_methods[1].name = "get"
  /\ supported_methods[1].path_params_type.attrs = <<TypeAttr(n_petId, s_int, TRUE, None)>>
  /\ pth.some
  /\ Len(pth.val) = 2
  /\ pth.val[1].original = <<"p","e","t">>
  /\ pth.val[1].segment = <<"p","e","t">>
  /\ pth.val[1].placeholder = None
  /\ pth.val[2].original = <<"{","p","e","t","I","d","}">>

C16_SegmentIdempotent ==
  pth.some =>
    \A i \in 1..Len(pth.val) :
      /\ ~pythonize_path_segment(pth.val[i].segment).failed
      /\ pythonize_path_segment(pth.val[i].segment).segment = pth.val[i].segment

\* the segments of a path with a placeholder, a digit-leading part and a
\* camel-case part among its parts
C16_Witness ==
  /\ pth.some
  /\ \E i, j \in 1..Len(pth.val) :
       /\ pth.val[i].placeholder # None
       /\ pth.val[i].segment # pth.val[i].original
       /\ pth.val[j].placeholder = None
       /\ pth.val[j].original # <<>>
       /\ IsDigit(pth.val[j].original[1])

\* the parts of the path that are not empty
NonEmptyParts == SelectSeq(Split(api_path, "/"), LAMBDA x : x # <<>>)

\* C17: api_path_to_filepath returns for every path one segment for each
\* non-empty part, in order, and the single segment root for a path without
\* a non-empty part; every identifier returned is non-empty and none starts
\* with a digit.
C17_SegmentsOfPath ==
  pc # "openapi_to_codegen_metadata" =>
    /\ pth.some
    /\ IF NonEmptyParts = <<>>
       THEN /\ Len(pth.val) = 1
            /\ pth.val[1].segment = <<"r","o","o","t">>
       ELSE /\ Len(pth.val) = Len(NonEmptyParts)
            /\ \A i \in 1..Len(pth.val) : pth.val[i].original = NonEmptyParts[i]
    /\ \A i \in 1..Len(pth.val) :
         /\ pth.val[i].segment # <<>>
         /\ ~IsDigit(pth.val[i].segment[1])

\* an operation of the path item has a parameter reference or a response
\* reference that the common tables do not hold
HasAbsentReference ==
  \E f \in DOMAIN path_item :
    \/ \E i \in 1..Len(path_item[f].parameters) :
         /\ path_item[f].parameters[i].kind = "ref"
         /\ path_item[f].parameters[i].name \notin DOMAIN components_parameters
    \/ \E i \in 1..Len(path_item[f].responses) :
         /\ path_item[f].responses[i][2].kind = "ref"
         /\ path_item[f].responses[i][2].name \notin DOMAIN components_responses

\* C18: when an operation has a parameter or response reference absent from
\* the common tables, openapi_to_codegen_metadata does not return a SpecMeta.
C18_AbsentReferenceFailsTheCall ==
  HasAbsentReference => ~pth.some

\* the parameters of group, the type made of them being the last of types,
\* have an override entry from the identifier of their attribute to their
\* wire name exactly when the two differ
OverridesOfGroup(group, types, default) ==
  group # <<>> =>
    \A i \in 1..Len(group) :
      LET type == types[Len(types)]
          identifier == type.attrs[Len(default.attrs) + i].name
          key == type.name \o <<".">> \o identifier
      IN  (key \in DOMAIN type.overrides /\ type.overrides[key] = group[i].name)
            <=> (group[i].name # identifier)

\* C19: for every parameter of a non-empty query or header group, the
\* override map of the resulting type has an entry from the identifier of
\* the attribute to the wire name of the parameter exactly when the wire
\* name differs from the identifier, and no entry when they are equal.
C19_OverrideWhenNamesDiffer ==
  \A k \in 1..Len(supported_methods) :
    /\ OverridesOfGroup(supported_methods[k].params.query_params,
                        supported_methods[k].query_types, DEFAULT_QUERY_PARAMS_TYPE)
    /\ OverridesOfGroup(supported_methods[k].params.header_params,
                        supported_methods[k].headers_types, DEFAULT_HEADERS_TYPE)

\* the parameters declared on an operation, references replaced by their
\* targets in spec.components.parameters
DeclaredParameters(method) ==
  [ i \in 1..Len(method.parameters) |->
      IF method.parameters[i].kind = "ref"
      THEN components_parameters[method.parameters[i].name]
      ELSE method.parameters[i] ]

\* the declared parameters of one location, in declaration order
DeclaredIn(method, location) ==
  SelectSeq(DeclaredParameters(method), LAMBDA x : x.in_ = location)

\* C20: for each operation the four location groups together hold exactly
\* the parameters declared on it, references replaced by their targets in
\* the common-parameter table, each in the group of its location and in
\* declaration order; none is dropped and none is carried over from
\* another operation.
C20_GroupsOfDeclaredParameters ==
  \A k \in 1..Len(supported_methods) :
    /\ supported_methods[k].params.query_params = DeclaredIn(supported_methods[k].method, "query")
    /\ supported_methods[k].params.path_params = DeclaredIn(supported_methods[k].method, "path")
    /\ supported_methods[k].params.header_params = DeclaredIn(supported_methods[k].method, "header")
    /\ supported_methods[k].params.cookie_params = DeclaredIn(supported_methods[k].method, "cookie")
    /\ Len(supported_methods[k].params.query_params)
         + Len(supported_methods[k].params.path_params)
         + Len(supported_methods[k].params.header_params)
         + Len(supported_methods[k].params.cookie_params)
       = Len(supported_methods[k].method.parameters)

\* the second operation of a path item is described, a reference being
\* among its two parameters
C20_Witness ==
  /\ Len(supported_methods) = 2
  /\ Len(supported_methods[2].method.parameters) = 2
  /\ \E i \in 1..2 : supported_methods[2].method.parameters[i].kind = "ref"
  /\ Len(supported_methods[2].params.query_params) = 2

\* the verbs of methods that are present on the path item
PresentVerbs ==
  {PathItemMethods[i] : i \in 1..Len(PathItemMethods)} \cap DOMAIN path_item

\* C21: iter_supported_methods yields exactly one descriptor for each of the
\* verbs head, get, post, put, patch, delete and trace present on the path
\* item, named by that verb, and none for any other field of the path item,
\* even when the value of that field equals one of the present operations.
C21_OneDescriptorPerPresentVerb ==
  /\ \A k \in 1..Len(supported_methods) : supported_methods[k].name \in PresentVerbs
  /\ \A k, l \in 1..Len(supported_methods) :
       supported_methods[k].name = supported_methods[l].name => k = l
  /\ pc = "exhausted" =>
       \A verb \in PresentVerbs :
         \E k \in 1..Len(supported_methods) : supported_methods[k].name = verb

\* schema is an allOf whose members are references to components that the
\* common types hold
AllOfCommonReferences(schema) ==
  /\ schema.kind = "allOf"
  /\ \A i \in 1..Len(schema.all_of) :
       /\ schema.all_of[i].kind = "ref"
       /\ schema.all_of[i].name \in DOMAIN common_schema_types_

\* content has a JSON entry, the one the code takes first, whose schema is
\* an allOf of references to common components
AllOfContent(content) ==
  /\ Declares(content, "JSON")
  /\ SchemaOf(content, "JSON") # NoSchema
  /\ AllOfCommonReferences(SchemaOf(content, "JSON"))

\* the operation at field f has such a request body, or such a response
AllOfBody(f) ==
  \/ /\ path_item[f].request_body.some
     /\ AllOfContent(path_item[f].request_body.val.content)
  \/ \E i \in 1..Len(path_item[f].responses) :
       /\ path_item[f].responses[i][2].kind # "ref"
       /\ AllOfContent(path_item[f].responses[i][2].content)

\* C23: an allOf schema whose members are references to object component
\* schemas resolves, as a request body and as a response body too, to one
\* object definition of the merged properties: the references are
\* dereferenced, not reported as missing.
C23_AllOfOfReferencesResolves ==
  \A f \in DOMAIN path_item :
    AllOfBody(f) =>
      /\ pc # "failed"
      /\ pc = "exhausted" =>
           \E k \in 1..Len(supported_methods) :
             /\ supported_methods[k].name = f
             /\ \E i \in 1..Len(supported_methods[k].request_types \o supported_methods[k].response_types) :
                  (supported_methods[k].request_types \o supported_methods[k].response_types)[i].attrs # <<>>

\* the operation at field f declares a parameter whose schema is a reference
\* to a component that the common types hold
CommonReferenceParameter(f) ==
  \E i \in 1..Len(path_item[f].parameters) :
    /\ path_item[f].parameters[i].kind = "parameter"
    /\ path_item[f].parameters[i].in_ \in {"query", "path", "header"}
    /\ path_item[f].parameters[i].schema.kind = "ref"
    /\ path_item[f].parameters[i].schema.location = "schemas"
    /\ path_item[f].parameters[i].schema.name \in DOMAIN common_schema_types_

\* the attributes of the query type of descriptor d are typed by the names
\* of the components their parameters refer to, and the type is the only
\* definition
QueryOfCommonNames(d) ==
  /\ Len(d.query_types) = 1
  /\ \A i \in 1..Len(d.params.query_params) :
       d.params.query_params[i].schema.kind = "ref" =>
         d.query_types[1].attrs[i].datatype = d.params.query_params[i].schema.name

\* C24: a query, path or header parameter whose schema is a reference to a
\* component schema present in the common registry resolves to the type
\* name of that component with no new definitions, as the same reference
\* does inside a request or response body.
C24_ParameterOfCommonReference ==
  \A f \in DOMAIN path_item :
    CommonReferenceParameter(f) =>
      /\ pc # "failed"
      /\ \A k \in 1..Len(supported_methods) :
           supported_methods[k].name = f => QueryOfCommonNames(supported_methods[k])

\* the types the descriptor d carries
CarriedTypes(d) ==
  <<d.path_params_type>> \o d.query_types \o d.headers_types
    \o d.request_types \o d.response_types

\* the names a sequence of types defines
DefinedNames(types) == {types[i].name : i \in 1..Len(types)}

\* the named types the attributes of a sequence of types refer to, the
\* members of an enum aside
ReferredNames(types) ==
  UNION { UNION { NamedTypes(types[i].attrs[j].datatype) : j \in 1..Len(types[i].attrs) }
          : i \in {i \in 1..Len(types) : ~types[i].is_enum} }

\* C25: every endpoint descriptor is closed under type references: each
\* named type in an attribute datatype of its path-params, query, header,
\* request or response types is defined in one of its own type lists or in
\* the common types; so is the enum or object definition made for the
\* schema of a path parameter.
C25_DescriptorClosed ==
  \A k \in 1..Len(supported_methods) :
    ReferredNames(CarriedTypes(supported_methods[k]))
      \subseteq (DefinedNames(CarriedTypes(supported_methods[k]))
                   \cup DOMAIN common_schema_types_)

\* the names written between curly braces in a part of a path, cur being
\* the name under way and open telling whether a brace is open
RECURSIVE WrittenNames(_, _, _)
WrittenNames(part, cur, open) ==
  IF part = <<>> THEN {}
  ELSE IF part[1] = "{" THEN WrittenNames(Tail(part), <<>>, TRUE)
  ELSE IF part[1] = "}" THEN (IF open THEN {cur} ELSE {})
                               \cup WrittenNames(Tail(part), <<>>, FALSE)
  ELSE WrittenNames(Tail(part), IF open THEN Append(cur, part[1]) ELSE cur, open)

\* the placeholders the path is written with are the path parameters the
\* descriptor d declares
PathDeclaresItsPlaceholders(d) ==
  UNION { WrittenNames(pth.val[i].original, <<>>, FALSE) : i \in 1..Len(pth.val) }
    = { d.params.path_params[i].name : i \in 1..Len(d.params.path_params) }

\* the placeholder names of as_endpoint_url: a segment gives its placeholder
\* token when it has one and its original text, which has no brace, when not
TemplateNames ==
  UNION { WrittenNames(pth.val[i].placeholder.val, <<>>, FALSE)
          : i \in {i \in 1..Len(pth.val) : pth.val[i].placeholder # None} }

\* C26: for every endpoint the set of placeholder names of the URL template
\* (as_endpoint_url) equals the set of attribute names of the path-params
\* type, for every spelling of the placeholder in the path, {petId} declared
\* with the path parameter petId among them.
C26_TemplateNamesAreParamsAttributes ==
  \A k \in 1..Len(supported_methods) :
    PathDeclaresItsPlaceholders(supported_methods[k]) =>
      TemplateNames = { supported_methods[k].path_params_type.attrs[i].name
                        : i \in 1..Len(supported_methods[k].path_params_type.attrs) }

\* the attribute names of a type are pairwise distinct
DistinctAttributeNames(type) ==
  \A i, j \in 1..Len(type.attrs) :
    type.attrs[i].name = type.attrs[j].name => i = j

\* C27: within every type definition the resolver produces (object types
\* and path, query and header parameter types, a Headers type built from
\* declared header parameters on top of the pre-seeded accept, content_type,
\* accept_charset and authorization among them) attribute names are
\* pairwise distinct.
C27_AttributeNamesDistinct ==
  \A k \in 1..Len(supported_methods) :
    \A i \in 1..Len(CarriedTypes(supported_methods[k])) :
      DistinctAttributeNames(CarriedTypes(supported_methods[k])[i])

\* in the sequence attrs no attribute without a default value comes after
\* one with a default value
DefaultsLast(attrs) ==
  \A i, j \in 1..Len(attrs) :
    (i < j /\ default_repr(attrs[i]) # None) => default_repr(attrs[j]) # None

\* C28: in the emitted attribute order (ordered_attrs) of any type
\* definition no attribute without a default value (default_repr absent)
\* comes after an attribute with a default value.
C28_NoDefaultBeforeRequiredValue ==
  \A k \in 1..Len(supported_methods) :
    \A i \in 1..Len(CarriedTypes(supported_methods[k])) :
      DefaultsLast(ordered_attrs(CarriedTypes(supported_methods[k])[i]))

\* the entries of types that bind the local name: the definitions of that
\* name and the aliases to it
Binders(types, local) ==
  { i \in 1..Len(types) :
      \/ types[i].name = local /\ types[i].common_reference_as = None
      \/ types[i].common_reference_as = Some(local) }

\* C29: in the request_types (response_types) of every descriptor the local
\* name Request (Response) is bound by exactly one entry, a definition of
\* that name or an alias to it, never both, also when the body is an array
\* of inline objects.
C29_LocalNameBoundOnce ==
  \A k \in 1..Len(supported_methods) :
    /\ Cardinality(Binders(supported_methods[k].request_types, s_Request)) = 1
    /\ Cardinality(Binders(supported_methods[k].response_types, s_Response)) = 1

(***************************************************************************)
(* Properties of the gen command                                           *)
(***************************************************************************)

\* the output root held content when main was called
HeldContent == root_before.kind # "absent" /\ ~is_empty_dir(root_before)

\* what the root held before is gone: it is no regular file and none of
\* the files of before is below it
OldRootRemoved ==
  /\ root.kind # "file"
  /\ \A f \in root.files : f.by # "before"

\* C30: gen never writes generated files into an output root that held
\* content when generation starts: without --force-overwrite nothing under
\* the root is created, changed or removed and "Done." is not written; with
\* --force-overwrite the existing root, a directory or a regular file, is
\* removed before the first generated file is written.
C30_NoOutputIntoOldRoot ==
  HeldContent =>
    /\ ~args.force_overwrite => (root = root_before /\ out_channel = <<>>)
    /\ (args.force_overwrite /\ pc # "main") => OldRootRemoved

====
